---- MODULE Spec2Model ----
(***************************************************************************)
(* Phonomizer: the reverser (src/lib/rules/reverser.ts), the phonotactic   *)
(* matcher and the forward engine, as a state machine over one reusable    *)
(* reverser instance.                                                      *)
(*                                                                         *)
(* Text is a sequence of characters, a phoneme is a non-empty sequence of  *)
(* characters and a token array is a sequence of phonemes, so joining      *)
(* tokens and tokenizing text are real conversions.                        *)
(***************************************************************************)
EXTENDS Integers, Sequences, FiniteSets, TLC

\* ------------------------------------------------------------------ bounds
MaxWordLen == 3
MaxRules == 2
MaxCalls == 3
MaxCallWordLen == 2
MaxPatternLen == 2
MaxPatterns == 2
MaxClassSize == 3
MaxDefinitions == 3
MaxSideItems == 2
MaxRuns == 2

\* --------------------------------------------------------------- constants
\* reverser.ts:6  const SEP = '\x01'
SEP == "SOH"
\* the word-boundary context token '#'
Boundary == <<"#">>
\* an absent optional field (leftContext?: string[]); no phoneme is empty,
\* so this value is no token array
Undefined == << <<>> >>

\* UTF-16 code units of the characters used, for Array.prototype.sort()
CodeUnit(c) ==
  CASE c = "#" -> 35 [] c = "a" -> 97 [] c = "b" -> 98 [] c = "c" -> 99
    [] c = "e" -> 101 [] c = "h" -> 104 [] c = "j" -> 106 [] c = "k" -> 107
    [] c = "l" -> 108 [] c = "o" -> 111
    [] c = "x" -> 120 [] c = "y" -> 121 [] c = "z" -> 122 [] OTHER -> 1

\* ------------------------------------------------------------ array helpers
\* Array.prototype.includes
Includes(arr, x) == \E k \in 1..Len(arr) : arr[k] = x

\* tokens.join('')
RECURSIVE Join(_)
Join(tokens) ==
  IF Len(tokens) = 0 THEN <<>> ELSE Head(tokens) \o Join(Tail(tokens))

\* the order of String comparison used by the default sort
RECURSIVE StrLess(_, _)
StrLess(s, t) ==
  IF Len(t) = 0 THEN FALSE
  ELSE IF Len(s) = 0 THEN TRUE
  ELSE IF CodeUnit(s[1]) < CodeUnit(t[1]) THEN TRUE
  ELSE IF CodeUnit(s[1]) > CodeUnit(t[1]) THEN FALSE
  ELSE StrLess(Tail(s), Tail(t))

RECURSIVE InsertSorted(_, _)
InsertSorted(sorted, w) ==
  IF Len(sorted) = 0 THEN <<w>>
  ELSE IF StrLess(w, sorted[1]) THEN <<w>> \o sorted
  ELSE <<sorted[1]>> \o InsertSorted(Tail(sorted), w)

\* results.sort()
RECURSIVE SortWords(_)
SortWords(arr) ==
  IF Len(arr) = 0 THEN <<>>
  ELSE InsertSorted(SortWords(SubSeq(arr, 1, Len(arr) - 1)), arr[Len(arr)])

\* InsertByLength putting the element last whatever its length
RECURSIVE InsertByLengthLast(_, _)
InsertByLengthLast(sorted, p) ==
  IF Len(sorted) = 0 THEN <<p>>
  ELSE <<sorted[1]>> \o InsertByLengthLast(Tail(sorted), p)

\* an element inserted into an array kept in descending length, after every
\* element that is at least as long (the sort is stable)
RECURSIVE InsertByLength(_, _)
InsertByLength(sorted, p) ==
  IF Len(sorted) = 0 THEN <<p>>
  ELSE IF Len(sorted[1]) < Len(p) THEN <<p>> \o sorted
  ELSE <<sorted[1]>> \o InsertByLength(Tail(sorted), p)

\* [...phonemes].sort((a, b) => b.length - a.length)
RECURSIVE SortLongestFirst(_)
SortLongestFirst(phonemes) ==
  IF Len(phonemes) = 0 THEN <<>>
  ELSE InsertByLength(SortLongestFirst(SubSeq(phonemes, 1, Len(phonemes) - 1)),
                      phonemes[Len(phonemes)])

\* ------------------------------------------------------------ serialization
RECURSIVE serializeTokens(_)
serializeTokens(tokens) ==
  IF Len(tokens) = 0 THEN <<>>
  ELSE IF Len(tokens) = 1 THEN tokens[1]
  ELSE tokens[1] \o <<SEP>> \o serializeTokens(Tail(tokens))

\* key.split(SEP): cur is the piece being read
RECURSIVE SplitSep(_, _)
SplitSep(key, cur) ==
  IF Len(key) = 0 THEN <<cur>>
  ELSE IF key[1] = SEP THEN <<cur>> \o SplitSep(Tail(key), <<>>)
  ELSE SplitSep(Tail(key), Append(cur, key[1]))

deserializeTokens(key) == IF key = <<>> THEN <<>> ELSE SplitSep(key, <<>>)

\* ------------------------------------------------------------- tokenization
\* word.substring(pos, pos + phoneme.length) === phoneme   (pos is 0-based)
PrefixAt(word, pos, phoneme) ==
  /\ pos + Len(phoneme) <= Len(word)
  /\ \A j \in 1..Len(phoneme) : word[pos + j] = phoneme[j]

\* the first phoneme of the sorted list that matches at pos, 0 when none does
FirstMatch(word, pos, sortedPhonemes) ==
  LET hits == {k \in 1..Len(sortedPhonemes) : PrefixAt(word, pos, sortedPhonemes[k])}
  IN IF hits = {} THEN 0 ELSE CHOOSE k \in hits : \A m \in hits : k <= m

RECURSIVE TokenizeLoop(_, _, _, _)
TokenizeLoop(word, sortedPhonemes, pos, tokens) ==
  IF pos >= Len(word) THEN [ok |-> TRUE, tokens |-> tokens, pos |-> pos]
  ELSE LET k == FirstMatch(word, pos, sortedPhonemes)
       IN IF k = 0 THEN [ok |-> FALSE, tokens |-> <<>>, pos |-> pos]
          ELSE TokenizeLoop(word, sortedPhonemes, pos + Len(sortedPhonemes[k]),
                            Append(tokens, sortedPhonemes[k]))

\* ok = FALSE is the thrown Error, pos the position it reports
tokenizeWith(word, sortedPhonemes) == TokenizeLoop(word, sortedPhonemes, 0, <<>>)

tokenize(word, phonemes) == tokenizeWith(word, SortLongestFirst(phonemes))

\* ------------------------------------------------------------------ context
\* reverser.ts matchesContextForSequence; position is 0-based and tokens[n]
\* of the source is tokens[n + 1] here
matchesContextForSequence(tokens, position, sequenceLength, leftContext, rightContext) ==
  /\ IF leftContext = Undefined THEN TRUE
     ELSE IF Len(leftContext) = 1 /\ leftContext[1] = Boundary THEN position = 0
     ELSE LET contextLength == Len(leftContext)
          IN /\ position >= contextLength
             /\ \A j \in 0..(contextLength - 1) :
                  tokens[position - contextLength + j + 1] = leftContext[j + 1]
  /\ IF rightContext = Undefined THEN TRUE
     ELSE IF Len(rightContext) = 1 /\ rightContext[1] = Boundary
          THEN position + sequenceLength = Len(tokens)
     ELSE LET contextLength == Len(rightContext)
          IN /\ position + sequenceLength + contextLength <= Len(tokens)
             /\ \A j \in 0..(contextLength - 1) :
                  tokens[position + sequenceLength + j + 1] = rightContext[j + 1]

\* ------------------------------------------------------------ reverseOneRule
\* [...tokens.slice(0, i), ...from, ...tokens.slice(i)]
InsertAt(tokens, i, from) ==
  SubSeq(tokens, 1, i) \o from \o SubSeq(tokens, i + 1, Len(tokens))

\* ReverseDeletion with the insertion loop stopping at i < tokens.length
ReverseDeletionInner(tokens, rule, sourcePhonemes) ==
  LET from == rule.from
      fromPhonemeInSource == \A k \in 1..Len(from) : Includes(sourcePhonemes, from[k])
      all == [n \in 1..Len(tokens) |-> InsertAt(tokens, n - 1, from)]
      idx == SelectSeq([n \in 1..Len(tokens) |-> n - 1],
                       LAMBDA i : matchesContextForSequence(all[i + 1], i, Len(from),
                                    rule.leftContext, rule.rightContext))
  IN (IF fromPhonemeInSource THEN <<tokens>> ELSE <<>>)
       \o [n \in 1..Len(idx) |-> all[idx[n] + 1]]

\* ReverseDeletion with the context read in the tokens before the insertion
ReverseDeletionStaleContext(tokens, rule, sourcePhonemes) ==
  LET from == rule.from
      fromPhonemeInSource == \A k \in 1..Len(from) : Includes(sourcePhonemes, from[k])
      all == [n \in 1..(Len(tokens) + 1) |-> InsertAt(tokens, n - 1, from)]
      idx == SelectSeq([n \in 1..(Len(tokens) + 1) |-> n - 1],
                       LAMBDA i : matchesContextForSequence(tokens, i, Len(from),
                                    rule.leftContext, rule.rightContext))
  IN (IF fromPhonemeInSource THEN <<tokens>> ELSE <<>>)
       \o [n \in 1..Len(idx) |-> all[idx[n] + 1]]

\* the deletion branch: the candidate itself when every token of from is in
\* the phoneme list handed in, then one insertion per index 0..tokens.length
\* whose context holds, in index order
ReverseDeletion(tokens, rule, sourcePhonemes) ==
  LET from == rule.from
      fromPhonemeInSource == \A k \in 1..Len(from) : Includes(sourcePhonemes, from[k])
      all == [n \in 1..(Len(tokens) + 1) |-> InsertAt(tokens, n - 1, from)]
      idx == SelectSeq([n \in 1..(Len(tokens) + 1) |-> n - 1],
                       LAMBDA i : matchesContextForSequence(all[i + 1], i, Len(from),
                                    rule.leftContext, rule.rightContext))
  IN (IF fromPhonemeInSource THEN <<tokens>> ELSE <<>>)
       \o [n \in 1..Len(idx) |-> all[idx[n] + 1]]

\* Positions without the context test
PositionsAnyContext(tokens, rule) ==
  LET toLength == Len(rule.to)
  IN SelectSeq([n \in 1..(Len(tokens) - toLength + 1) |-> n - 1],
       LAMBDA i : \A j \in 0..(toLength - 1) : tokens[i + j + 1] = rule.to[j + 1])

\* the start indices (0-based, ascending) where `to` occurs with its context
Positions(tokens, rule) ==
  LET toLength == Len(rule.to)
  IN SelectSeq([n \in 1..(Len(tokens) - toLength + 1) |-> n - 1],
       LAMBDA i : /\ \A j \in 0..(toLength - 1) : tokens[i + j + 1] = rule.to[j + 1]
                  /\ matchesContextForSequence(tokens, i, toLength,
                                               rule.leftContext, rule.rightContext))

\* positionMap.get(i): the index in positions of token position i, -1 for
\* the source's undefined
PositionMapGet(positions, i) ==
  IF \E n \in 1..Len(positions) : positions[n] = i
  THEN (CHOOSE n \in 1..Len(positions) : positions[n] = i) - 1
  ELSE -1

\* BitSet reading the bit above the one asked for
BitSetShifted(mask, posIndex) == (mask \div (2 ^ (posIndex + 1))) % 2 = 1

\* mask & (1 << posIndex)
BitSet(mask, posIndex) == (mask \div (2 ^ posIndex)) % 2 = 1

\* the while loop that builds one result for one mask, from token index i
RECURSIVE BuildMasked(_, _, _, _, _)
BuildMasked(tokens, rule, positions, mask, i) ==
  IF i >= Len(tokens) THEN <<>>
  ELSE LET posIndex == PositionMapGet(positions, i)
       IN IF posIndex # -1 /\ BitSet(mask, posIndex)
          THEN rule.from \o BuildMasked(tokens, rule, positions, mask, i + Len(rule.to))
          ELSE <<tokens[i + 1]>> \o BuildMasked(tokens, rule, positions, mask, i + 1)

\* the substitution branch: the candidate alone when `to` occurs nowhere,
\* otherwise one result per mask 0 .. 2^k - 1
ReverseSubstitution(tokens, rule) ==
  LET positions == Positions(tokens, rule)
  IN IF Len(positions) = 0 THEN <<tokens>>
     ELSE [m \in 1..(2 ^ Len(positions)) |->
             BuildMasked(tokens, rule, positions, m - 1, 0)]

\* the array of pre-images of one candidate under one rule
reverseOneRule(tokens, rule, sourcePhonemes) ==
  IF Len(rule.to) = 0 THEN ReverseDeletion(tokens, rule, sourcePhonemes)
  ELSE ReverseSubstitution(tokens, rule)

\* -------------------------------------------------------------- phonotactics
matchesPattern(tokens, pattern) ==
  /\ Len(tokens) = Len(pattern.positions)
  /\ \A i \in 1..Len(tokens) : tokens[i] \in pattern.positions[i]

\* matchesPhonotactics asking every pattern to match
matchesPhonotacticsEvery(tokens, phonotactics) ==
  IF ~phonotactics.present THEN TRUE
  ELSE \A n \in 1..Len(phonotactics.patterns) :
         matchesPattern(tokens, phonotactics.patterns[n])

\* phonotactics is [present |-> FALSE, ...] for null
matchesPhonotactics(tokens, phonotactics) ==
  IF ~phonotactics.present THEN TRUE
  ELSE \E n \in 1..Len(phonotactics.patterns) :
         matchesPattern(tokens, phonotactics.patterns[n])

\* ----------------------------------------------------------- forward engine
\* the context test of applyRuleToTokens around the span of from at i
ForwardContext(tokens, i, sequenceLength, leftContext, rightContext) ==
  /\ IF leftContext = Undefined THEN TRUE
     ELSE IF Len(leftContext) = 1 /\ leftContext[1] = Boundary THEN i = 0
     ELSE /\ i >= Len(leftContext)
          /\ \A j \in 1..Len(leftContext) :
               tokens[i - Len(leftContext) + j] = leftContext[j]
  /\ IF rightContext = Undefined THEN TRUE
     ELSE IF Len(rightContext) = 1 /\ rightContext[1] = Boundary
          THEN i + sequenceLength = Len(tokens)
     ELSE /\ i + sequenceLength + Len(rightContext) <= Len(tokens)
          /\ \A j \in 1..Len(rightContext) :
               tokens[i + sequenceLength + j] = rightContext[j]

\* ApplyScan resuming one token after the start of a match
RECURSIVE ApplyScanOverlap(_, _, _)
ApplyScanOverlap(tokens, rule, i) ==
  IF i >= Len(tokens) THEN <<>>
  ELSE LET sequenceLength == Len(rule.from)
           sequenceMatches ==
             /\ i + sequenceLength <= Len(tokens)
             /\ \A j \in 0..(sequenceLength - 1) : tokens[i + j + 1] = rule.from[j + 1]
       IN IF sequenceMatches /\ ForwardContext(tokens, i, sequenceLength,
                                               rule.leftContext, rule.rightContext)
          THEN rule.to \o ApplyScanOverlap(tokens, rule, i + 1)
          ELSE <<tokens[i + 1]>> \o ApplyScanOverlap(tokens, rule, i + 1)

\* the scan of applyRuleToTokens from token index i (0-based)
RECURSIVE ApplyScan(_, _, _)
ApplyScan(tokens, rule, i) ==
  IF i >= Len(tokens) THEN <<>>
  ELSE LET sequenceLength == Len(rule.from)
           sequenceMatches ==
             /\ i + sequenceLength <= Len(tokens)
             /\ \A j \in 0..(sequenceLength - 1) : tokens[i + j + 1] = rule.from[j + 1]
       IN IF sequenceMatches /\ ForwardContext(tokens, i, sequenceLength,
                                               rule.leftContext, rule.rightContext)
          THEN rule.to \o ApplyScan(tokens, rule, i + sequenceLength)
          ELSE <<tokens[i + 1]>> \o ApplyScan(tokens, rule, i + 1)

applyRuleToTokens(tokens, rule) == ApplyScan(tokens, rule, 0)

\* ApplyFold taking the rules last to first
RECURSIVE ApplyFoldBackward(_, _, _)
ApplyFoldBackward(tokens, ruleList, n) ==
  IF n > Len(ruleList) THEN <<tokens>>
  ELSE <<tokens>> \o ApplyFoldBackward(
                        applyRuleToTokens(tokens, ruleList[Len(ruleList) - n + 1]),
                        ruleList, n + 1)

\* the successive values of tokens, from rule n to the last rule
RECURSIVE ApplyFold(_, _, _)
ApplyFold(tokens, ruleList, n) ==
  IF n > Len(ruleList) THEN <<tokens>>
  ELSE <<tokens>> \o ApplyFold(applyRuleToTokens(tokens, ruleList[n]), ruleList, n + 1)

\* ok = FALSE is the tokenization Error of the source word, trace the
\* successive values of tokens
applyRules(w, ruleList, sourceInv, targetInv) ==
  LET t == tokenize(w, sourceInv)
  IN IF ~t.ok THEN [ok |-> FALSE, output |-> <<>>, pos |-> t.pos, trace |-> <<>>]
     ELSE LET trace == ApplyFold(t.tokens, ruleList, 1)
          IN [ok |-> TRUE, output |-> Join(trace[Len(trace)]), pos |-> 0,
              trace |-> trace]

\* ---------------------------------------------------------------- reverser
\* the set of keys as an array, in some iteration order; the final sort
\* makes the returned array independent of it
RECURSIVE SetToSeq(_)
SetToSeq(S) ==
  IF S = {} THEN <<>>
  ELSE LET k == CHOOSE x \in S : TRUE IN <<k>> \o SetToSeq(S \ {k})

\* createReverser, lines 65-69: the source phonemes followed by the from
\* tokens of the deletion rules that are not yet in the set
RECURSIVE AddAll(_, _)
AddAll(arr, from) ==
  IF Len(from) = 0 THEN arr
  ELSE AddAll(IF Includes(arr, from[1]) THEN arr ELSE Append(arr, from[1]), Tail(from))

RECURSIVE Dedup(_)
Dedup(arr) ==
  IF Len(arr) = 0 THEN <<>>
  ELSE LET d == Dedup(SubSeq(arr, 1, Len(arr) - 1))
       IN IF Includes(d, arr[Len(arr)]) THEN d ELSE Append(d, arr[Len(arr)])

\* ExpandLoop adding the from tokens of every rule
RECURSIVE ExpandLoopAllRules(_, _, _)
ExpandLoopAllRules(all, ruleList, n) ==
  IF n > Len(ruleList) THEN all
  ELSE ExpandLoopAllRules(AddAll(all, ruleList[n].from), ruleList, n + 1)

RECURSIVE ExpandLoop(_, _, _)
ExpandLoop(all, ruleList, n) ==
  IF n > Len(ruleList) THEN all
  ELSE ExpandLoop(IF Len(ruleList[n].to) = 0 THEN AddAll(all, ruleList[n].from) ELSE all,
                  ruleList, n + 1)

ExpandedSourcePhonemes(ruleList, sourceInv) == ExpandLoop(Dedup(sourceInv), ruleList, 1)

\* one pass of the loop over the rules, lines 90-99
ReverseStep(keys, rule, expanded) ==
  UNION { LET reversed == reverseOneRule(deserializeTokens(key), rule, expanded)
          IN {serializeTokens(reversed[n]) : n \in 1..Len(reversed)}
        : key \in keys }

\* ReverseFold taking the rules first to last
RECURSIVE ReverseFoldForward(_, _, _, _)
ReverseFoldForward(keys, ruleList, i, expanded) ==
  IF i < 1 THEN <<keys>>
  ELSE <<keys>> \o ReverseFoldForward(
                     ReverseStep(keys, ruleList[Len(ruleList) - i + 1], expanded),
                     ruleList, i - 1, expanded)

\* the successive values of possibilityKeys, from rule i down to rule 1
RECURSIVE ReverseFold(_, _, _, _)
ReverseFold(keys, ruleList, i, expanded) ==
  IF i < 1 THEN <<keys>>
  ELSE <<keys>> \o ReverseFold(ReverseStep(keys, ruleList[i], expanded),
                               ruleList, i - 1, expanded)

\* KeepKey without the tokenization of the joined text
KeepKeyNoTokenize(key, sortedSource, phonotactics) ==
  phonotactics.present => matchesPhonotactics(deserializeTokens(key), phonotactics)

\* KeepKey without the phonotactics
KeepKeyNoPhonotactics(key, sortedSource, phonotactics) ==
  tokenizeWith(Join(deserializeTokens(key)), sortedSource).ok

\* lines 103-114: the candidates that pass the final validation
KeepKey(key, sortedSource, phonotactics) ==
  LET tokens == deserializeTokens(key)
  IN /\ tokenizeWith(Join(tokens), sortedSource).ok
     /\ (phonotactics.present => matchesPhonotactics(tokens, phonotactics))

\* FinalWords giving up at the first candidate that does not tokenize
FinalWordsAbort(keys, sortedSource, phonotactics) ==
  LET kept == SelectSeq(SetToSeq(keys), LAMBDA key : KeepKey(key, sortedSource, phonotactics))
  IN IF \E key \in keys : ~tokenizeWith(Join(deserializeTokens(key)), sortedSource).ok
     THEN <<>>
     ELSE SortWords([n \in 1..Len(kept) |-> Join(deserializeTokens(kept[n]))])

FinalWords(keys, sortedSource, phonotactics) ==
  LET kept == SelectSeq(SetToSeq(keys), LAMBDA key : KeepKey(key, sortedSource, phonotactics))
  IN SortWords([n \in 1..Len(kept) |-> Join(deserializeTokens(kept[n]))])

\* reverseWord past the cache lookup: ok = FALSE is the tokenization Error,
\* trace the successive candidate sets
ReverseCompute(w, ruleList, expanded, sortedTarget, sortedSource, phonotactics) ==
  LET t == tokenizeWith(w, sortedTarget)
  IN IF ~t.ok THEN [ok |-> FALSE, words |-> <<>>, pos |-> t.pos, trace |-> <<>>]
     ELSE LET trace == ReverseFold({serializeTokens(t.tokens)}, ruleList,
                                   Len(ruleList), expanded)
          IN [ok |-> TRUE, pos |-> 0, trace |-> trace,
              words |-> FinalWords(trace[Len(trace)], sortedSource, phonotactics)]

\* reverseRules: a fresh reverser called once
reverseRules(w, ruleList, sourceInv, targetInv, phonotactics) ==
  LET expanded == ExpandedSourcePhonemes(ruleList, sourceInv)
  IN ReverseCompute(w, ruleList, expanded, SortLongestFirst(targetInv),
                    SortLongestFirst(expanded), phonotactics)

\* ------------------------------------------------------------------- inputs
P(c) == <<c>>

Rule(f, t, l, r) == [from |-> f, to |-> t, leftContext |-> l, rightContext |-> r]

NoPhonotactics == [present |-> FALSE, patterns |-> <<>>]
Phonotactics(patterns) == [present |-> TRUE, patterns |-> patterns]

Scenario(r, s, t, ph) == [rules |-> r, source |-> s, target |-> t, phonotactics |-> ph]

\* the rules the generated rule lists are drawn from, over the phonemes a, b
RuleUniverse ==
  { Rule(<<P("a")>>, <<P("b")>>, Undefined, Undefined),
    Rule(<<P("a")>>, <<P("b")>>, <<P("a")>>, Undefined),
    Rule(<<P("a")>>, <<P("b")>>, Undefined, <<Boundary>>),
    Rule(<<P("a")>>, <<P("b"), P("b")>>, Undefined, Undefined),
    Rule(<<P("a"), P("a")>>, <<P("b")>>, Undefined, Undefined),
    Rule(<<P("b")>>, <<P("a")>>, <<Boundary>>, <<P("a")>>),
    Rule(<<P("b")>>, <<>>, Undefined, Undefined),
    Rule(<<P("b")>>, <<>>, <<P("a")>>, <<Boundary>>) }

RuleLists == UNION { [1..n -> RuleUniverse] : n \in 0..MaxRules }

GenSources == { <<P("a"), P("b")>>, <<P("a")>>, <<P("b")>>, <<P("b"), P("a"), <<"a", "b">>>> }
GenTargets == { <<P("a"), P("b")>>, <<P("b"), P("a"), <<"a", "b">>>> }

GenPhonotactics ==
  { NoPhonotactics,
    Phonotactics(<< [positions |-> <<{P("a")}, {P("a"), P("b")}>>] >>) }

Generated ==
  { Scenario(r, s, t, ph) : r \in RuleLists, s \in GenSources,
                            t \in GenTargets, ph \in GenPhonotactics }

\* the configurations of the repository's reverser tests
Hello == <<P("h"), P("e"), P("l"), P("o")>>
Ello == <<P("e"), P("l"), P("o")>>

TestScenarios ==
  { Scenario(<< Rule(<<P("a")>>, <<P("x")>>, Undefined, Undefined),
                Rule(<<P("b")>>, <<P("y")>>, Undefined, Undefined),
                Rule(<<P("c")>>, <<P("x")>>, Undefined, Undefined) >>,
             <<P("a"), P("b"), P("c")>>, <<P("x"), P("y")>>, NoPhonotactics),
    Scenario(<< Rule(<<P("a")>>, <<P("b")>>, Undefined, Undefined),
                Rule(<<P("b")>>, <<P("c")>>, Undefined, Undefined) >>,
             <<P("a")>>, <<P("c")>>, NoPhonotactics),
    Scenario(<< Rule(<<P("h")>>, <<>>, Undefined, Undefined) >>,
             Hello, Ello, NoPhonotactics),
    Scenario(<< Rule(<<P("h")>>, <<>>, Undefined, Undefined) >>,
             Ello, Ello, NoPhonotactics),
    Scenario(<< Rule(<<P("h")>>, <<>>, Undefined, <<Boundary>>) >>,
             Hello, Ello, NoPhonotactics),
    Scenario(<< Rule(<<P("a")>>, <<P("x")>>, Undefined, Undefined) >>,
             <<P("a"), P("b"), P("c")>>, <<P("x")>>, NoPhonotactics),
    Scenario(<< Rule(<<P("a")>>, <<P("b")>>, Undefined, Undefined),
                Rule(<<P("b")>>, <<P("c")>>, Undefined, Undefined) >>,
             <<P("a"), P("b")>>, <<P("b"), P("c")>>, NoPhonotactics),
    Scenario(<< Rule(<<P("a"), P("j")>>, <<P("e")>>, Undefined, Undefined) >>,
             <<P("b"), P("a"), P("j"), P("k")>>, <<P("b"), P("e"), P("k")>>,
             NoPhonotactics),
    Scenario(<< Rule(<<P("a")>>, <<P("a"), P("a")>>, Undefined, Undefined) >>,
             <<P("a")>>, <<P("a")>>, NoPhonotactics) }

\* an inventory in which a phoneme is the prefix of another one and the
\* rest of that one is no phoneme, and the rule ab > a b that splits a
\* phoneme of two characters into the phonemes of its characters
TokenizerScenarios ==
  { Scenario(<< Rule(<<P("a")>>, <<P("b")>>, Undefined, Undefined) >>,
             <<P("a"), <<"a", "b">>>>, <<P("a"), P("b")>>, NoPhonotactics),
    Scenario(<< Rule(<< <<"a", "b">> >>, <<P("a"), P("b")>>, Undefined, Undefined) >>,
             <<P("a"), P("b"), <<"a", "b">>>>, <<P("a"), P("b")>>, NoPhonotactics) }

Scenarios == Generated \cup TestScenarios \cup TokenizerScenarios

\* words of the tests that are longer than MaxWordLen
TestWords == { <<"e", "l", "l", "o">>, <<"b", "a", "j", "k", "a", "j">> }

RECURSIVE Chars(_)
Chars(phonemes) ==
  IF Len(phonemes) = 0 THEN {}
  ELSE {phonemes[1][j] : j \in 1..Len(phonemes[1])} \cup Chars(Tail(phonemes))

WordsOver(alphabet) ==
  UNION { [1..n -> alphabet] : n \in 0..MaxWordLen }
    \cup { w \in TestWords : \A j \in 1..Len(w) : w[j] \in alphabet }

\* -------------------------------------------------------------------- state
VARIABLES
  rules, sourcePhonemes, targetPhonemes, sourcePhonotactics,   \* createReverser's arguments
  expandedSourcePhonemes, sortedTargetPhonemes, sortedSourcePhonemes,
  cache,        \* Map<string, string[]>
  word,         \* the word the next call is made with
  call,         \* the last call made, what it returned or threw, and for a
                \* reversal the successive values of possibilityKeys
  calls,        \* how many calls have been made
  history,      \* every call made so far, oldest first
  rulesText,    \* the rule text handed to parseRules
  props,        \* WordGenerator: the props the parent passes
  side, analysisStatus, analysisProgress, analysisEntries, activeFilter,
  analysisInputKey, currentToken,                \* WordGenerator's state
  reverser, reverserKey,                         \* _reverser, _reverserKey
  runs          \* the calls of runAnalysis made so far, by token

component == <<props, side, analysisStatus, analysisProgress, analysisEntries,
               activeFilter, analysisInputKey, currentToken, reverser, reverserKey, runs>>

vars == <<rules, sourcePhonemes, targetPhonemes, sourcePhonotactics,
          expandedSourcePhonemes, sortedTargetPhonemes, sortedSourcePhonemes,
          cache, word, call, calls, history, rulesText, component>>

config == <<rules, sourcePhonemes, targetPhonemes, sourcePhonotactics,
            expandedSourcePhonemes, sortedTargetPhonemes, sortedSourcePhonemes,
            rulesText, component>>

NoCall == [op |-> "none", word |-> <<>>, ok |-> TRUE, words |-> <<>>,
           output |-> <<>>, pos |-> 0, hit |-> FALSE, trace |-> <<>>,
           tokens |-> <<>>, matches |-> FALSE,
           parsed |-> <<>>, error |-> "none", lineNum |-> 0,
           line |-> [def |-> FALSE, text |-> <<>>], variable |-> <<>>]

InputWords == WordsOver(Chars(sourcePhonemes) \cup Chars(targetPhonemes))

\* the props of a WordGenerator
Props(r, s, t, sp, tp) ==
  [rules |-> r, sourcePhonemeSet |-> s, targetPhonemeSet |-> t,
   sourcePhonotactics |-> sp, targetPhonotactics |-> tp]

\* no reverser yet (null), and the reverser createReverser made from props
NoReverser == [def |-> FALSE, props |-> <<>>]
ReverserOf(p) == [def |-> TRUE, props |-> p]

\* the state of a WordGenerator that has just been mounted with props p
Mounted(p) ==
  /\ props = p
  /\ side = "source"
  /\ analysisStatus = "idle"
  /\ analysisProgress = 0
  /\ analysisEntries = <<>>
  /\ activeFilter = "all"
  /\ analysisInputKey = <<>>
  /\ currentToken = 0
  /\ reverser = NoReverser
  /\ reverserKey = <<>>
  /\ runs = <<>>

\* the WordGenerator of a page without rules, inventories or phonotactics
NoWordGenerator == Mounted(Props(<<>>, <<>>, <<>>, "null", "null"))

\* createReverser(rules, sourcePhonemes, targetPhonemes, sourcePhonotactics)
createReverser(sc) ==
  /\ rules = sc.rules
  /\ sourcePhonemes = sc.source
  /\ targetPhonemes = sc.target
  /\ sourcePhonotactics = sc.phonotactics
  /\ expandedSourcePhonemes = ExpandedSourcePhonemes(sc.rules, sc.source)
  /\ sortedTargetPhonemes = SortLongestFirst(sc.target)
  /\ sortedSourcePhonemes = SortLongestFirst(ExpandedSourcePhonemes(sc.rules, sc.source))
  /\ cache = << >>
  /\ call = NoCall
  /\ calls = 0
  /\ history = << >>

\* the arguments of one call of reverseRules or applyRules
Init ==
  \E sc \in Scenarios :
    /\ createReverser(sc)
    /\ word \in WordsOver(Chars(sc.source) \cup Chars(sc.target))
    /\ rulesText = <<>>
    /\ NoWordGenerator

\* reverseRules(word, rules, sourcePhonemes, targetPhonemes, sourcePhonotactics):
\* a reverser of its own, called once and dropped
reverseRulesCall ==
  /\ call.op = "none"
  /\ LET r == reverseRules(word, rules, sourcePhonemes, targetPhonemes, sourcePhonotactics)
     IN call' = [NoCall EXCEPT !.op = "reverse", !.word = word, !.ok = r.ok,
                               !.words = r.words, !.pos = r.pos, !.trace = r.trace]
  /\ history' = Append(history, call')
  /\ UNCHANGED <<config, cache, word, calls>>

\* applyRules(word, rules, sourcePhonemes, targetPhonemes)
applyRulesCall ==
  /\ call.op = "none"
  /\ LET r == applyRules(word, rules, sourcePhonemes, targetPhonemes)
     IN call' = [NoCall EXCEPT !.op = "apply", !.word = word, !.ok = r.ok,
                               !.output = r.output, !.pos = r.pos,
                               !.trace = r.trace]
  /\ history' = Append(history, call')
  /\ UNCHANGED <<config, cache, word, calls>>

Next == reverseRulesCall \/ applyRulesCall

Spec == Init /\ [][Next]_vars

\* the function returned by createReverser, called with a word that is
\* already in the cache whenever there is one
reverseWordStale(w) ==
  /\ calls < MaxCalls
  /\ calls' = calls + 1
  /\ word' = w
  /\ IF DOMAIN cache # {}
     THEN /\ call' = [NoCall EXCEPT !.op = "reverseWord", !.word = w, !.hit = TRUE,
                                    !.words = cache[CHOOSE v \in DOMAIN cache : TRUE]]
          /\ UNCHANGED cache
     ELSE LET r == ReverseCompute(w, rules, expandedSourcePhonemes,
                                  sortedTargetPhonemes, sortedSourcePhonemes,
                                  sourcePhonotactics)
          IN /\ call' = [NoCall EXCEPT !.op = "reverseWord", !.word = w, !.ok = r.ok,
                                       !.words = r.words, !.pos = r.pos,
                                       !.trace = r.trace]
             /\ cache' = IF r.ok THEN [v \in DOMAIN cache \cup {w} |->
                                         IF v = w THEN r.words ELSE cache[v]]
                         ELSE cache
  /\ history' = Append(history, call')
  /\ UNCHANGED config

\* the function returned by createReverser, keeping the empty result of a
\* word that does not tokenize
reverseWordCachingFailure(w) ==
  /\ calls < MaxCalls
  /\ calls' = calls + 1
  /\ word' = w
  /\ IF w \in DOMAIN cache
     THEN /\ call' = [NoCall EXCEPT !.op = "reverseWord", !.word = w,
                                    !.words = cache[w], !.hit = TRUE]
          /\ UNCHANGED cache
     ELSE LET r == ReverseCompute(w, rules, expandedSourcePhonemes,
                                  sortedTargetPhonemes, sortedSourcePhonemes,
                                  sourcePhonotactics)
          IN /\ call' = [NoCall EXCEPT !.op = "reverseWord", !.word = w, !.ok = r.ok,
                                       !.words = r.words, !.pos = r.pos,
                                       !.trace = r.trace]
             /\ cache' = [v \in DOMAIN cache \cup {w} |->
                            IF v = w THEN r.words ELSE cache[v]]
  /\ history' = Append(history, call')
  /\ UNCHANGED config

\* the function returned by createReverser, called with w: the cached array
\* on a hit; otherwise the computation, stored unless it threw
reverseWord(w) ==
  /\ calls < MaxCalls
  /\ calls' = calls + 1
  /\ word' = w
  /\ IF w \in DOMAIN cache
     THEN /\ call' = [NoCall EXCEPT !.op = "reverseWord", !.word = w,
                                    !.words = cache[w], !.hit = TRUE]
          /\ UNCHANGED cache
     ELSE LET r == ReverseCompute(w, rules, expandedSourcePhonemes,
                                  sortedTargetPhonemes, sortedSourcePhonemes,
                                  sourcePhonotactics)
          IN /\ call' = [NoCall EXCEPT !.op = "reverseWord", !.word = w, !.ok = r.ok,
                                       !.words = r.words, !.pos = r.pos,
                                       !.trace = r.trace]
             /\ cache' = IF r.ok THEN [v \in DOMAIN cache \cup {w} |->
                                         IF v = w THEN r.words ELSE cache[v]]
                         ELSE cache
  /\ history' = Append(history, call')
  /\ UNCHANGED config

\* reverseRules called with w on a results array that outlives the call
callReverseRulesKeepingResults(w) ==
  /\ calls < MaxCalls
  /\ calls' = calls + 1
  /\ word' = w
  /\ LET r == reverseRules(w, rules, sourcePhonemes, targetPhonemes, sourcePhonotactics)
     IN call' = [NoCall EXCEPT !.op = "reverse", !.word = w, !.ok = r.ok,
                               !.words = call.words \o r.words, !.pos = r.pos,
                               !.trace = r.trace]
  /\ history' = Append(history, call')
  /\ UNCHANGED <<config, cache>>

\* reverseRules called with w among other calls: its reverser and the cache
\* of that reverser are made for the call and dropped with it
callReverseRules(w) ==
  /\ calls < MaxCalls
  /\ calls' = calls + 1
  /\ word' = w
  /\ LET r == reverseRules(w, rules, sourcePhonemes, targetPhonemes, sourcePhonotactics)
     IN call' = [NoCall EXCEPT !.op = "reverse", !.word = w, !.ok = r.ok,
                               !.words = r.words, !.pos = r.pos, !.trace = r.trace]
  /\ history' = Append(history, call')
  /\ UNCHANGED <<config, cache>>

\* applyRules called with w among other calls
callApplyRules(w) ==
  /\ calls < MaxCalls
  /\ calls' = calls + 1
  /\ word' = w
  /\ LET r == applyRules(w, rules, sourcePhonemes, targetPhonemes)
     IN call' = [NoCall EXCEPT !.op = "apply", !.word = w, !.ok = r.ok,
                               !.output = r.output, !.pos = r.pos,
                               !.trace = r.trace]
  /\ history' = Append(history, call')
  /\ UNCHANGED <<config, cache>>

\* the configurations one reverser instance is built for and called
\* repeatedly with
ReverserScenarios ==
  { Scenario(<< Rule(<<P("a")>>, <<P("b")>>, Undefined, Undefined) >>,
             <<P("a"), P("b")>>, <<P("b")>>, NoPhonotactics),
    Scenario(<< Rule(<<P("a")>>, <<P("b")>>, Undefined, <<Boundary>>),
                Rule(<<P("b")>>, <<>>, <<P("a")>>, <<Boundary>>) >>,
             <<P("a")>>, <<P("b"), P("a"), <<"a", "b">>>>,
             Phonotactics(<< [positions |-> <<{P("a")}, {P("a"), P("b")}>>] >>)),
    Scenario(<< Rule(<<P("a")>>, <<P("b")>>, Undefined, Undefined),
                Rule(<<P("b")>>, <<P("c")>>, Undefined, Undefined) >>,
             <<P("a")>>, <<P("c")>>, NoPhonotactics) }

\* the words of the repeated calls
CallWords ==
  UNION { [1..n -> Chars(sourcePhonemes) \cup Chars(targetPhonemes)]
          : n \in 0..MaxCallWordLen }

\* one reverser instance, and the calls made while it is alive
InitReverser ==
  \E sc \in ReverserScenarios :
    createReverser(sc) /\ word = <<>> /\ rulesText = <<>> /\ NoWordGenerator

NextReverser ==
  \E w \in CallWords : reverseWord(w) \/ callReverseRules(w) \/ callApplyRules(w)

SpecReverser == InitReverser /\ [][NextReverser]_vars

\* ------------------------------------------------------------------ strings
\* rule text is a sequence of characters; LF is the line feed and EMPTYSET
\* the deletion marker (U+2205)
LF == "LF"
EmptySet == "EMPTYSET"

\* /\s/
IsSpace(c) == c \in {" ", LF}

RECURSIVE TrimStart(_)
TrimStart(str) ==
  IF Len(str) > 0 /\ IsSpace(str[1]) THEN TrimStart(Tail(str)) ELSE str

RECURSIVE TrimEnd(_)
TrimEnd(str) ==
  IF Len(str) > 0 /\ IsSpace(str[Len(str)])
  THEN TrimEnd(SubSeq(str, 1, Len(str) - 1)) ELSE str

\* str.trim()
Trim(str) == TrimEnd(TrimStart(str))

\* str.indexOf(c), 0-based, -1 when c is not in str
IndexOf(str, c) ==
  IF \E k \in 1..Len(str) : str[k] = c
  THEN (CHOOSE k \in 1..Len(str) : str[k] = c /\ \A m \in 1..(k - 1) : str[m] # c) - 1
  ELSE -1

\* str.substring(a, b), 0-based
Substring(str, a, b) == SubSeq(str, a + 1, b)

StartsWith(str, c) == Len(str) > 0 /\ str[1] = c
EndsWith(str, c) == Len(str) > 0 /\ str[Len(str)] = c

\* str.split(c): cur is the piece being read
RECURSIVE SplitAt(_, _, _)
SplitAt(str, c, cur) ==
  IF Len(str) = 0 THEN <<cur>>
  ELSE IF str[1] = c THEN <<cur>> \o SplitAt(Tail(str), c, <<>>)
  ELSE SplitAt(Tail(str), c, Append(cur, str[1]))

Split(str, c) == SplitAt(str, c, <<>>)

RECURSIVE WordsAt(_, _)
WordsAt(str, cur) ==
  IF Len(str) = 0 THEN (IF cur = <<>> THEN <<>> ELSE <<cur>>)
  ELSE IF IsSpace(str[1])
       THEN (IF cur = <<>> THEN <<>> ELSE <<cur>>) \o WordsAt(Tail(str), <<>>)
  ELSE WordsAt(Tail(str), Append(cur, str[1]))

\* str.split(/\s+/).filter(p => p.length > 0)
SplitWords(str) == WordsAt(str, <<>>)

\* parts.join(sep)
RECURSIVE JoinWith(_, _)
JoinWith(parts, sep) ==
  IF Len(parts) = 0 THEN <<>>
  ELSE IF Len(parts) = 1 THEN parts[1]
  ELSE parts[1] \o <<sep>> \o JoinWith(Tail(parts), sep)

\* str.replace(/\s+/g, ' ').trim()
CollapseSpaces(str) == JoinWith(SplitWords(str), " ")

\* the arrays of an array put end to end
RECURSIVE Flatten(_)
Flatten(arrays) ==
  IF Len(arrays) = 0 THEN <<>> ELSE arrays[1] \o Flatten(Tail(arrays))

\* the 1-based index of the first occurrence of pat in str, 0 when none
FirstOccurrence(str, pat) ==
  LET at == {k \in 1..(Len(str) - Len(pat) + 1) : SubSeq(str, k, k + Len(pat) - 1) = pat}
  IN IF at = {} THEN 0 ELSE CHOOSE k \in at : \A m \in at : k <= m

\* str.replace(pat, repl) with a string pattern: the first occurrence only
ReplaceFirst(str, pat, repl) ==
  LET k == FirstOccurrence(str, pat)
  IN IF k = 0 THEN str
     ELSE SubSeq(str, 1, k - 1) \o repl \o SubSeq(str, k + Len(pat), Len(str))

\* a value of type string | undefined
None == [def |-> FALSE, text |-> <<>>]
Some(str) == [def |-> TRUE, text |-> str]

\* ------------------------------------------------------------------- parser
\* the pieces of the content of a class: cut at white space outside brackets
RECURSIVE ClassTokensAt(_, _, _)
ClassTokensAt(content, depth, cur) ==
  IF Len(content) = 0 THEN (IF cur = <<>> THEN <<>> ELSE <<cur>>)
  ELSE IF content[1] = "["
       THEN ClassTokensAt(Tail(content), depth + 1, Append(cur, "["))
  ELSE IF content[1] = "]"
       THEN ClassTokensAt(Tail(content), depth - 1, Append(cur, "]"))
  ELSE IF IsSpace(content[1]) /\ depth = 0
       THEN (IF cur = <<>> THEN <<>> ELSE <<cur>>) \o ClassTokensAt(Tail(content), 0, <<>>)
  ELSE ClassTokensAt(Tail(content), depth, Append(cur, content[1]))

RECURSIVE flattenNestedClass(_)
RECURSIVE FlattenTokens(_)

\* the pieces flattened in turn; the first one that throws ends the loop
FlattenTokens(tokens) ==
  IF Len(tokens) = 0 THEN [ok |-> TRUE, items |-> <<>>]
  ELSE LET h == flattenNestedClass(tokens[1])
       IN IF ~h.ok THEN h
          ELSE LET t == FlattenTokens(Tail(tokens))
               IN IF ~t.ok THEN t ELSE [ok |-> TRUE, items |-> h.items \o t.items]

\* ok = FALSE is the Error 'Class cannot be empty'
flattenNestedClass(str) ==
  LET trimmed == Trim(str)
  IN IF ~(StartsWith(trimmed, "[") /\ EndsWith(trimmed, "]"))
     THEN [ok |-> TRUE, items |-> <<trimmed>>]
     ELSE LET content == Trim(SubSeq(trimmed, 2, Len(trimmed) - 1))
          IN IF content = <<>> THEN [ok |-> FALSE, items |-> <<>>]
             ELSE FlattenTokens(ClassTokensAt(content, 0, <<>>))

\* the number of [ met at depth 0
RECURSIVE ClassCount(_, _)
ClassCount(str, depth) ==
  IF Len(str) = 0 THEN 0
  ELSE IF str[1] = "[" THEN (IF depth = 0 THEN 1 ELSE 0) + ClassCount(Tail(str), depth + 1)
  ELSE IF str[1] = "]" THEN ClassCount(Tail(str), depth - 1)
  ELSE ClassCount(Tail(str), depth)

\* isClass = FALSE is the source's null, ok = FALSE the Error of an empty class
extractClass(str) ==
  LET trimmed == Trim(str)
  IN IF ~(StartsWith(trimmed, "[") /\ EndsWith(trimmed, "]"))
     THEN [ok |-> TRUE, isClass |-> FALSE, items |-> <<>>]
     ELSE IF ClassCount(trimmed, 0) > 1
     THEN [ok |-> TRUE, isClass |-> FALSE, items |-> <<>>]
     ELSE LET f == flattenNestedClass(trimmed)
          IN [ok |-> f.ok, isClass |-> TRUE, items |-> f.items]

\* the 1-based index of the first ] at or after index i, 0 when none
NextClose(str, i) ==
  LET at == {k \in i..Len(str) : str[k] = "]"}
  IN IF at = {} THEN 0 ELSE CHOOSE k \in at : \A m \in at : k <= m

\* the matches of /\[([^\]]+)\]/g from index i on, each as its full text
RECURSIVE ClassMatches(_, _)
ClassMatches(str, i) ==
  IF i > Len(str) THEN <<>>
  ELSE IF str[i] = "[" /\ NextClose(str, i + 1) >= i + 2
       THEN <<SubSeq(str, i, NextClose(str, i + 1))>>
              \o ClassMatches(str, NextClose(str, i + 1) + 1)
  ELSE ClassMatches(str, i + 1)

\* one match taken in every result so far, once per phoneme of the match
ExpandOneMatch(results, fullMatch) ==
  LET phonemes == SplitWords(SubSeq(fullMatch, 2, Len(fullMatch) - 1))
      cleaned(r, ph) == CollapseSpaces(ReplaceFirst(r, fullMatch, ph))
  IN Flatten([n \in 1..Len(results) |->
                SelectSeq([m \in 1..Len(phonemes) |-> cleaned(results[n], phonemes[m])],
                          LAMBDA c : c # <<>>)])

RECURSIVE ExpandMatches(_, _)
ExpandMatches(results, matches) ==
  IF Len(matches) = 0 THEN results
  ELSE ExpandMatches(ExpandOneMatch(results, matches[1]), Tail(matches))

expandEmbeddedClasses(str) ==
  LET matches == ClassMatches(str, 1)
  IN IF Len(matches) = 0 THEN <<str>> ELSE ExpandMatches(<<str>>, matches)

Segment(type, content) == [type |-> type, content |-> content]

\* the 0-based index of the ) that closes the group, the length of the
\* context when there is none
RECURSIVE MatchingClose(_, _, _)
MatchingClose(context, j, innerDepth) ==
  IF j >= Len(context) THEN j
  ELSE IF context[j + 1] \in {"(", "["} THEN MatchingClose(context, j + 1, innerDepth + 1)
  ELSE IF context[j + 1] \in {")", "]"}
       THEN IF innerDepth = 0 /\ context[j + 1] = ")" THEN j
            ELSE MatchingClose(context, j + 1, innerDepth - 1)
  ELSE MatchingClose(context, j + 1, innerDepth)

\* the while loop of parseSegments from index i (0-based)
RECURSIVE ParseSegmentsAt(_, _, _, _, _)
ParseSegmentsAt(context, i, fixedStart, depth, segments) ==
  IF i >= Len(context)
  THEN LET remaining == Trim(Substring(context, fixedStart, Len(context)))
       IN [ok |-> TRUE,
           segments |-> IF remaining # <<>> THEN Append(segments, Segment("fixed", remaining))
                        ELSE segments]
  ELSE IF context[i + 1] = "["
       THEN ParseSegmentsAt(context, i + 1, fixedStart, depth + 1, segments)
  ELSE IF context[i + 1] = "]"
       THEN ParseSegmentsAt(context, i + 1, fixedStart, depth - 1, segments)
  ELSE IF context[i + 1] = "(" /\ depth = 0
       THEN LET fixed == Trim(Substring(context, fixedStart, i))
                flushed == IF fixed # <<>> THEN Append(segments, Segment("fixed", fixed))
                           ELSE segments
                j == MatchingClose(context, i + 1, 0)
            IN IF j >= Len(context) THEN [ok |-> FALSE, segments |-> <<>>]
               ELSE ParseSegmentsAt(context, j + 1, j + 1, depth,
                      Append(flushed, Segment("optional", Substring(context, i + 1, j))))
  ELSE ParseSegmentsAt(context, i + 1, fixedStart, depth, segments)

\* ok = FALSE is the Error 'Unclosed optional group'
parseSegments(context) == ParseSegmentsAt(context, 0, 0, 0, <<>>)

\* DedupStrings keeping every string
RECURSIVE DedupStringsKeepAll(_, _)
DedupStringsKeepAll(strings, seen) ==
  IF Len(strings) = 0 THEN <<>>
  ELSE <<strings[1]>> \o DedupStringsKeepAll(Tail(strings), seen)

\* the strings seen once each, in order of first appearance
RECURSIVE DedupStrings(_, _)
DedupStrings(strings, seen) ==
  IF Len(strings) = 0 THEN <<>>
  ELSE IF strings[1] \in seen THEN DedupStrings(Tail(strings), seen)
  ELSE <<strings[1]>> \o DedupStrings(Tail(strings), seen \cup {strings[1]})

RECURSIVE expandOptionalGroups(_)
RECURSIVE Combinations(_, _)

\* the loop over the segments: combinations is an array of arrays of parts
Combinations(segments, combinations) ==
  IF Len(segments) = 0 THEN [ok |-> TRUE, combinations |-> combinations]
  ELSE IF segments[1].type = "fixed"
       THEN LET trimmed == Trim(segments[1].content)
            IN Combinations(Tail(segments),
                 IF trimmed # <<>>
                 THEN [n \in 1..Len(combinations) |-> Append(combinations[n], trimmed)]
                 ELSE combinations)
  ELSE LET inner == expandOptionalGroups(segments[1].content)
       IN IF ~inner.ok THEN [ok |-> FALSE, combinations |-> <<>>]
          ELSE LET kept == SelectSeq(inner.variants,
                                     LAMBDA v : v.def /\ Trim(v.text) # <<>>)
                   innerVariants == [n \in 1..Len(kept) |-> kept[n].text]
               IN Combinations(Tail(segments),
                    Flatten([n \in 1..Len(combinations) |->
                               [m \in 1..Len(innerVariants) |->
                                  Append(combinations[n], innerVariants[m])]
                                 \o <<combinations[n]>>]))

\* every variant of a context with and without its optional groups; None is
\* the source's undefined
expandOptionalGroups(context) ==
  LET parsed == parseSegments(context)
  IN IF ~parsed.ok THEN [ok |-> FALSE, variants |-> <<>>]
     ELSE IF Len(parsed.segments) = 0 THEN [ok |-> TRUE, variants |-> <<None>>]
     ELSE IF \A n \in 1..Len(parsed.segments) : parsed.segments[n].type # "optional"
     THEN LET joined == CollapseSpaces(JoinWith(
                          [n \in 1..Len(parsed.segments) |-> parsed.segments[n].content], " "))
          IN [ok |-> TRUE, variants |-> <<IF joined = <<>> THEN None ELSE Some(joined)>>]
     ELSE LET c == Combinations(parsed.segments, << <<>> >>)
          IN IF ~c.ok THEN [ok |-> FALSE, variants |-> <<>>]
             ELSE LET joined == [n \in 1..Len(c.combinations) |->
                                   CollapseSpaces(JoinWith(
                                     SelectSeq(c.combinations[n], LAMBDA q : Trim(q) # <<>>),
                                     " "))]
                      distinct == DedupStrings(joined, {})
                  IN [ok |-> TRUE,
                      variants |-> [n \in 1..Len(distinct) |->
                                      IF distinct[n] = <<>> THEN None ELSE Some(distinct[n])]]

\* a thrown Error: what it is about, the line number its message gives
\* (0 when it gives none) and the rule line its message quotes, if any
Failure(kind, lineNum, line) ==
  [ok |-> FALSE, rules |-> <<>>, error |-> kind, lineNum |-> lineNum, line |-> line,
   variable |-> <<>>]

\* the Error of resolveVariables, whose message names a variable
CircularFailure(name) ==
  [ok |-> FALSE, rules |-> <<>>, error |-> "CircularReference", lineNum |-> 0,
   line |-> None, variable |-> name]

Success(ruleList) ==
  [ok |-> TRUE, rules |-> ruleList, error |-> "none", lineNum |-> 0, line |-> None,
   variable |-> <<>>]

\* expandRule's validation without the test that a class in `to` needs one
\* in from
ValidateClassesLengthOnly(fromClass, toClass) ==
  IF fromClass.isClass /\ toClass.isClass /\ Len(fromClass.items) # Len(toClass.items)
  THEN "ClassLengths"
  ELSE "none"

\* expandRule's validation of the classes of from and to
ValidateClasses(fromClass, toClass) ==
  IF toClass.isClass /\ ~fromClass.isClass THEN "ClassInTarget"
  ELSE IF fromClass.isClass /\ toClass.isClass /\ Len(fromClass.items) # Len(toClass.items)
  THEN "ClassLengths"
  ELSE "none"

\* FromToOptions pairing every member of from with every member of `to`
FromToOptionsCross(fromClass, toClass, from, to) ==
  IF fromClass.isClass /\ toClass.isClass
  THEN Flatten([n \in 1..Len(fromClass.items) |->
                  [m \in 1..Len(toClass.items) |->
                     [from |-> fromClass.items[n], to |-> toClass.items[m]]]])
  ELSE IF fromClass.isClass
  THEN [n \in 1..Len(fromClass.items) |-> [from |-> fromClass.items[n], to |-> to]]
  ELSE << [from |-> from, to |-> to] >>

\* the from/to combinations: the classes zipped, a class in from alone
\* spread over the one `to`, or the pair as written
FromToOptions(fromClass, toClass, from, to) ==
  IF fromClass.isClass /\ toClass.isClass
  THEN [n \in 1..Len(fromClass.items) |->
          [from |-> fromClass.items[n], to |-> toClass.items[n]]]
  ELSE IF fromClass.isClass
  THEN [n \in 1..Len(fromClass.items) |-> [from |-> fromClass.items[n], to |-> to]]
  ELSE << [from |-> from, to |-> to] >>

\* strings as values of type string | undefined
EmbeddedStrings(strings) == [n \in 1..Len(strings) |-> Some(strings[n])]

\* the variants of a context without its optional groups, each with its
\* embedded classes expanded
RECURSIVE EmbeddedOptions(_)
EmbeddedOptions(variants) ==
  IF Len(variants) = 0 THEN <<>>
  ELSE (IF ~variants[1].def THEN <<None>>
        ELSE EmbeddedStrings(expandEmbeddedClasses(variants[1].text)))
         \o EmbeddedOptions(Tail(variants))

OptionalOptions(optVariants) ==
  IF ~optVariants.ok THEN [ok |-> FALSE, options |-> <<>>]
  ELSE [ok |-> TRUE, options |-> EmbeddedOptions(optVariants.variants)]

\* the options of one context side; context is None for undefined
ContextOptions(context, contextClass) ==
  IF contextClass.isClass
  THEN [ok |-> TRUE, options |-> EmbeddedStrings(contextClass.items)]
  ELSE OptionalOptions(expandOptionalGroups(IF context.def THEN context.text ELSE <<>>))

\* a context option as the field of a Rule
ContextArray(context) ==
  IF ~context.def THEN Undefined
  ELSE IF Len(SplitWords(context.text)) > 0 THEN SplitWords(context.text)
  ELSE Undefined

\* the Rule pushed for one combination
ExpandedRule(from, to, leftContext, rightContext) ==
  Rule(SplitWords(from),
       IF to = <<>> \/ Trim(to) = <<EmptySet>> THEN <<>> ELSE SplitWords(to),
       ContextArray(leftContext), ContextArray(rightContext))

\* the three loops over the from/to combinations and the context options
ExpandedRules(fromToOptions, left, right) ==
  IF ~left.ok \/ ~right.ok THEN Failure("UnclosedGroup", 0, None)
  ELSE Success(Flatten(Flatten(
         [n \in 1..Len(fromToOptions) |->
            [l \in 1..Len(left.options) |->
               [r \in 1..Len(right.options) |->
                  ExpandedRule(fromToOptions[n].from, fromToOptions[n].to,
                               left.options[l], right.options[r])]]])))

\* the class of a context side, which is looked for only when the side is
\* given
ContextClass(context) ==
  IF context.def /\ context.text # <<>> THEN extractClass(context.text)
  ELSE [ok |-> TRUE, isClass |-> FALSE, items |-> <<>>]

\* expandRule once the four classes are extracted
ExpandClasses(baseRule, fromClass, toClass, leftClass, rightClass, lineNum, originalLine) ==
  IF ~fromClass.ok \/ ~toClass.ok \/ ~leftClass.ok \/ ~rightClass.ok
  THEN Failure("EmptyClass", 0, None)
  ELSE IF ValidateClasses(fromClass, toClass) = "ClassInTarget"
  THEN Failure("ClassInTarget", lineNum, Some(originalLine))
  ELSE IF ValidateClasses(fromClass, toClass) = "ClassLengths"
  THEN Failure("ClassLengths", lineNum, None)
  ELSE ExpandedRules(FromToOptions(fromClass, toClass, baseRule.from, baseRule.to),
                     ContextOptions(baseRule.leftContext, leftClass),
                     ContextOptions(baseRule.rightContext, rightClass))

\* baseRule is [from, to, leftContext, rightContext] with None for undefined
expandRule(baseRule, lineNum, originalLine) ==
  ExpandClasses(baseRule, extractClass(baseRule.from), extractClass(baseRule.to),
                ContextClass(baseRule.leftContext), ContextClass(baseRule.rightContext),
                lineNum, originalLine)

\* ---------------------------------------------------------------- variables
\* the letter Eng (U+014A) as one code unit: a letter that is not a word
\* character of a regular expression
Eng == "ENG"

\* the characters that \w of a regular expression matches
WordChars ==
  {"a", "b", "c", "d", "e", "f", "g", "h", "i", "j", "k", "l", "m", "n", "o", "p", "q",
   "r", "s", "t", "u", "v", "w", "x", "y", "z",
   "A", "B", "C", "D", "E", "F", "G", "H", "I", "J", "K", "L", "M", "N", "O", "P", "Q",
   "R", "S", "T", "U", "V", "W", "X", "Y", "Z",
   "0", "1", "2", "3", "4", "5", "6", "7", "8", "9", "_"}

\* whether character k of str is a word character; outside str none is
IsWordAt(str, k) == k >= 1 /\ k <= Len(str) /\ str[k] \in WordChars

\* \b between character k and character k + 1 of str
WordBoundary(str, k) == IsWordAt(str, k) # IsWordAt(str, k + 1)

\* \bname\b matching str from character k on
MatchesWordAt(str, name, k) ==
  /\ k + Len(name) - 1 <= Len(str)
  /\ SubSeq(str, k, k + Len(name) - 1) = name
  /\ WordBoundary(str, k - 1)
  /\ WordBoundary(str, k + Len(name) - 1)

\* new RegExp(`\\b${name}\\b`, 'g').test(str)
TestWord(str, name) == \E k \in 1..Len(str) : MatchesWordAt(str, name, k)

\* str.replace(new RegExp(`\\b${name}\\b`, 'g'), value) from character k on
RECURSIVE ReplaceWordFrom(_, _, _, _)
ReplaceWordFrom(str, name, value, k) ==
  IF k > Len(str) THEN <<>>
  ELSE IF MatchesWordAt(str, name, k)
  THEN value \o ReplaceWordFrom(str, name, value, k + Len(name))
  ELSE <<str[k]>> \o ReplaceWordFrom(str, name, value, k + 1)

ReplaceWord(str, name, value) == ReplaceWordFrom(str, name, value, 1)

\* a Map<string, string>: its entries [name, value] in insertion order
MapHas(map, name) == \E k \in 1..Len(map) : map[k].name = name
MapGet(map, name) == map[CHOOSE k \in 1..Len(map) : map[k].name = name].value
MapSet(map, name, value) ==
  IF MapHas(map, name)
  THEN [k \in 1..Len(map) |-> IF map[k].name = name THEN [name |-> name, value |-> value]
                              ELSE map[k]]
  ELSE Append(map, [name |-> name, value |-> value])

\* what is left of a line without its trailing semicolon
WithoutSemicolon(line) ==
  IF EndsWith(line, ";") THEN Trim(SubSeq(line, 1, Len(line) - 1)) ELSE Trim(line)

\* isDef = FALSE is the source's null
VariableDefinitionOf(str, eqIndex, gtIndex) ==
  IF eqIndex = -1 THEN [isDef |-> FALSE, name |-> <<>>, value |-> <<>>]
  ELSE IF gtIndex # -1 /\ gtIndex < eqIndex
  THEN [isDef |-> FALSE, name |-> <<>>, value |-> <<>>]
  ELSE IF Trim(Substring(str, 0, eqIndex)) = <<>>
  THEN [isDef |-> FALSE, name |-> <<>>, value |-> <<>>]
  ELSE [isDef |-> TRUE, name |-> Trim(Substring(str, 0, eqIndex)),
        value |-> Trim(Substring(str, eqIndex + 1, Len(str)))]

parseVariableDefinition(line) ==
  VariableDefinitionOf(WithoutSemicolon(line), IndexOf(WithoutSemicolon(line), "="),
                       IndexOf(WithoutSemicolon(line), ">"))

\* a call of resolve that returned value, or threw the Error naming name
Resolved(resolved, value) ==
  [ok |-> TRUE, resolved |-> resolved, value |-> value, name |-> <<>>]
Circular(name) == [ok |-> FALSE, resolved |-> <<>>, value |-> <<>>, name |-> name]

RECURSIVE resolve(_, _, _, _)
RECURSIVE ResolveLoop(_, _, _, _, _, _)

\* the referenced variable resolved and put in place of its name
ResolveReference(r, name, newVisiting, definitions, substituted, j) ==
  IF ~r.ok THEN r
  ELSE ResolveLoop(name, newVisiting, definitions, r.resolved,
                   ReplaceWord(substituted, definitions[j].name, r.value), j + 1)

\* the loop of resolve over the defined names, from the j-th on
ResolveLoop(name, newVisiting, definitions, resolved, substituted, j) ==
  IF j > Len(definitions)
  THEN Resolved(MapSet(resolved, name, substituted), substituted)
  ELSE IF TestWord(substituted, definitions[j].name)
  THEN ResolveReference(resolve(definitions[j].name, newVisiting, definitions, resolved),
                        name, newVisiting, definitions, substituted, j)
  ELSE ResolveLoop(name, newVisiting, definitions, resolved, substituted, j + 1)

\* resolve(name, visiting) of resolveVariables; resolved is the Map the
\* calls share
resolve(name, visiting, definitions, resolved) ==
  IF MapHas(resolved, name) THEN Resolved(resolved, MapGet(resolved, name))
  ELSE IF name \in visiting THEN Circular(name)
  ELSE IF ~MapHas(definitions, name) \/ MapGet(definitions, name) = <<>>
  THEN Resolved(resolved, name)
  ELSE ResolveLoop(name, visiting \cup {name}, definitions, resolved,
                   MapGet(definitions, name), 1)

RECURSIVE ResolveAll(_, _, _)

ResolveNext(r, definitions, j) ==
  IF ~r.ok THEN r ELSE ResolveAll(definitions, j + 1, r.resolved)

\* the loop of resolveVariables over the defined names
ResolveAll(definitions, j, resolved) ==
  IF j > Len(definitions) THEN Resolved(resolved, <<>>)
  ELSE ResolveNext(resolve(definitions[j].name, {}, definitions, resolved), definitions, j)

resolveVariables(definitions) == ResolveAll(definitions, 1, <<>>)

\* the characters substituteVariables takes for the end of a token
TokenDelimiters == {" ", LF, "[", "]", ">", "/", "_", ";"}

\* the pattern of substituteVariables matching str from character k on,
\* k being the place of the leading delimiter or, at the start, of the name
NameAfterDelimiterAt(str, name, k) ==
  /\ k + Len(name) <= Len(str)
  /\ str[k] \in TokenDelimiters
  /\ SubSeq(str, k + 1, k + Len(name)) = name
  /\ (k + Len(name) = Len(str) \/ str[k + Len(name) + 1] \in TokenDelimiters)

NameAtStart(str, name) ==
  /\ Len(name) <= Len(str)
  /\ SubSeq(str, 1, Len(name)) = name
  /\ (Len(name) = Len(str) \/ str[Len(name) + 1] \in TokenDelimiters)

\* the global replace of substituteVariables from character k on
RECURSIVE SubstituteFrom(_, _, _, _)
SubstituteFrom(str, name, value, k) ==
  IF k > Len(str) THEN <<>>
  ELSE IF k = 1 /\ NameAtStart(str, name)
  THEN value \o SubstituteFrom(str, name, value, 1 + Len(name))
  ELSE IF NameAfterDelimiterAt(str, name, k)
  THEN <<str[k]>> \o value \o SubstituteFrom(str, name, value, k + 1 + Len(name))
  ELSE <<str[k]>> \o SubstituteFrom(str, name, value, k + 1)

\* entries sorted by the length of their names, longest first, entries of
\* equal length in the order they have
RECURSIVE InsertEntry(_, _)
InsertEntry(sorted, entry) ==
  IF Len(sorted) = 0 THEN <<entry>>
  ELSE IF Len(sorted[1].name) >= Len(entry.name)
  THEN <<sorted[1]>> \o InsertEntry(Tail(sorted), entry)
  ELSE <<entry>> \o sorted

RECURSIVE SortEntries(_)
SortEntries(map) ==
  IF Len(map) = 0 THEN <<>>
  ELSE InsertEntry(SortEntries(SubSeq(map, 1, Len(map) - 1)), map[Len(map)])

RECURSIVE SubstituteEach(_, _)
SubstituteEach(result, sortedVars) ==
  IF Len(sortedVars) = 0 THEN result
  ELSE SubstituteEach(SubstituteFrom(result, sortedVars[1].name, sortedVars[1].value, 1),
                      Tail(sortedVars))

substituteVariables(line, variables) == SubstituteEach(line, SortEntries(variables))

\* ------------------------------------------------------------ negative sets
\* a Set<string> in insertion order, with one more string added
SetAdd(set, str) == IF \E k \in 1..Len(set) : set[k] = str THEN set ELSE Append(set, str)

RECURSIVE SetAddAll(_, _)
SetAddAll(set, strings) ==
  IF Len(strings) = 0 THEN set ELSE SetAddAll(SetAdd(set, strings[1]), Tail(strings))

\* str.replace(/\[|\]/g, ' ')
WithoutBrackets(str) == [k \in 1..Len(str) |-> IF str[k] \in {"[", "]"} THEN " " ELSE str[k]]

\* the filter of extractPhonemes
IsUniverseToken(t) ==
  /\ t # <<>>
  /\ t \notin {<<"_">>, <<"#">>, <<"!">>, <<EmptySet>>}
  /\ ~StartsWith(t, "!")

RECURSIVE KeepUniverseTokens(_)
KeepUniverseTokens(tokens) ==
  IF Len(tokens) = 0 THEN <<>>
  ELSE (IF IsUniverseToken(tokens[1]) THEN <<tokens[1]>> ELSE <<>>)
         \o KeepUniverseTokens(Tail(tokens))

\* extractPhonemes(str) of collectAllPhonemes, adding to phonemes
extractPhonemes(phonemes, str) ==
  SetAddAll(phonemes, KeepUniverseTokens(SplitWords(WithoutBrackets(str))))

\* str.replace(';', ''): the first semicolon only
WithoutFirstSemicolon(str) ==
  IF IndexOf(str, ";") = -1 THEN str
  ELSE SubSeq(str, 1, IndexOf(str, ";")) \o SubSeq(str, IndexOf(str, ";") + 2, Len(str))

\* from, `to` and the context of one rule line added to phonemes; parts is
\* the line split at the slashes and main its first part split at >
ExtractLineParts(phonemes, parts, main) ==
  extractPhonemes(
    extractPhonemes(
      extractPhonemes(phonemes, Trim(main[1])),
      IF Len(main) >= 2 THEN Trim(main[2]) ELSE <<>>),
    IF Len(parts) >= 2 THEN parts[2] ELSE <<>>)

ExtractLine(phonemes, parts) == ExtractLineParts(phonemes, parts, Split(parts[1], ">"))

RECURSIVE ExtractValues(_, _)
ExtractValues(phonemes, variables) ==
  IF Len(variables) = 0 THEN phonemes
  ELSE ExtractValues(extractPhonemes(phonemes, variables[1].value), Tail(variables))

RECURSIVE ExtractLines(_, _)
ExtractLines(phonemes, ruleLines) ==
  IF Len(ruleLines) = 0 THEN phonemes
  ELSE ExtractLines(ExtractLine(phonemes, Split(WithoutFirstSemicolon(ruleLines[1]), "/")),
                    Tail(ruleLines))

\* the universe of the negative sets, in the order the phonemes are met
collectAllPhonemes(variables, ruleLines) ==
  ExtractLines(ExtractValues(<<>>, variables), ruleLines)

\* a string returned, or the Error of kind error thrown
Text(str) == [ok |-> TRUE, text |-> str, error |-> "none"]
TextError(kind) == [ok |-> FALSE, text |-> <<>>, error |-> kind]

RECURSIVE Without(_, _)
Without(strings, excluded) ==
  IF Len(strings) = 0 THEN <<>>
  ELSE (IF \E k \in 1..Len(excluded) : excluded[k] = strings[1] THEN <<>> ELSE <<strings[1]>>)
         \o Without(Tail(strings), excluded)

ClassText(items) == <<"[">> \o JoinWith(items, " ") \o <<"]">>

\* the complement of the phonemes toExclude, which flattenNestedClass gave
ComplementOf(toExclude, universe) ==
  IF ~toExclude.ok THEN TextError("EmptyClass")
  ELSE IF Len(Without(universe, toExclude.items)) = 0 THEN TextError("NegativeSetEmpty")
  ELSE Text(ClassText(Without(universe, toExclude.items)))

\* expandNegativeSet for a negative set whose text between ![ and ] is content
expandNegativeSet(content, universe) ==
  IF Trim(content) = <<>> THEN Text(ClassText(universe))
  ELSE ComplementOf(flattenNestedClass(<<"[">> \o Trim(content) \o <<"]">>), universe)

\* result.indexOf('![')
BangBracketIndex(str) ==
  IF \E k \in 1..(Len(str) - 1) : str[k] = "!" /\ str[k + 1] = "["
  THEN (CHOOSE k \in 1..(Len(str) - 1) :
          /\ str[k] = "!" /\ str[k + 1] = "["
          /\ \A m \in 1..(k - 1) : ~(str[m] = "!" /\ str[m + 1] = "[")) - 1
  ELSE -1

\* the 0-based index of the ] that closes the negative set, looked for from
\* index i on; -1 when there is none
RECURSIVE NegativeSetEnd(_, _, _)
NegativeSetEnd(str, i, depth) ==
  IF i >= Len(str) THEN -1
  ELSE IF str[i + 1] = "[" THEN NegativeSetEnd(str, i + 1, depth + 1)
  ELSE IF str[i + 1] = "]"
       THEN (IF depth = 0 THEN i ELSE NegativeSetEnd(str, i + 1, depth - 1))
  ELSE NegativeSetEnd(str, i + 1, depth)

RECURSIVE expandNegativeSets(_, _)

ReplaceNegativeSet(expanded, result, bangBracketIndex, endIndex, universe) ==
  IF ~expanded.ok THEN expanded
  ELSE expandNegativeSets(Substring(result, 0, bangBracketIndex) \o expanded.text
                            \o Substring(result, endIndex + 1, Len(result)),
                          universe)

ExpandNegativeSetAt(result, bangBracketIndex, endIndex, universe) ==
  IF endIndex = -1 THEN TextError("UnclosedNegativeSet")
  ELSE ReplaceNegativeSet(
         expandNegativeSet(Substring(result, bangBracketIndex + 2, endIndex), universe),
         result, bangBracketIndex, endIndex, universe)

expandNegativeSets(str, universe) ==
  IF BangBracketIndex(str) = -1 THEN Text(str)
  ELSE ExpandNegativeSetAt(str, BangBracketIndex(str),
                           NegativeSetEnd(str, BangBracketIndex(str) + 2, 0), universe)

\* the 0-based index of the first _ outside brackets and parentheses, -1
\* when there is none
RECURSIVE PlaceholderIndex(_, _, _)
PlaceholderIndex(contextPart, i, depth) ==
  IF i >= Len(contextPart) THEN -1
  ELSE IF contextPart[i + 1] \in {"[", "("} THEN PlaceholderIndex(contextPart, i + 1, depth + 1)
  ELSE IF contextPart[i + 1] \in {"]", ")"} THEN PlaceholderIndex(contextPart, i + 1, depth - 1)
  ELSE IF contextPart[i + 1] = "_" /\ depth = 0 THEN i
  ELSE PlaceholderIndex(contextPart, i + 1, depth)

\* a side of the context: the empty string means no context on that side
ContextSide(str) == IF str = <<>> THEN None ELSE Some(str)

\* the rule line once from, `to` and the context part are cut out;
\* contextPart is empty when the line has no slash or nothing after it
ParseContext(from, to, contextPart, underscoreIndex, line, lineNum) ==
  IF contextPart # <<>> /\ underscoreIndex = -1
  THEN Failure("NoUnderscore", lineNum, Some(line))
  ELSE IF contextPart = <<>>
  THEN expandRule([from |-> from, to |-> to, leftContext |-> None, rightContext |-> None],
                  lineNum, line)
  ELSE expandRule([from |-> from, to |-> to,
                   leftContext |-> ContextSide(Trim(Substring(contextPart, 0, underscoreIndex))),
                   rightContext |-> ContextSide(Trim(Substring(contextPart, underscoreIndex + 1,
                                                               Len(contextPart))))],
                  lineNum, line)

\* the main part split at >
ParseMain(parts, contextPart, line, lineNum) ==
  IF Len(parts) # 2 THEN Failure("Format", lineNum, Some(line))
  ELSE IF Trim(parts[1]) = <<>> THEN Failure("EmptySource", lineNum, None)
  ELSE ParseContext(Trim(parts[1]), Trim(parts[2]), contextPart,
                    PlaceholderIndex(contextPart, 0, 0), line, lineNum)

\* the rule part cut at the first slash
ParseRulePart(rulePart, slashIndex, line, lineNum) ==
  IF slashIndex # -1
  THEN ParseMain(Split(Trim(Substring(rulePart, 0, slashIndex)), ">"),
                 Trim(Substring(rulePart, slashIndex + 1, Len(rulePart))), line, lineNum)
  ELSE ParseMain(Split(rulePart, ">"), <<>>, line, lineNum)

\* the line without its trailing semicolon
StripSemicolon(line) ==
  IF EndsWith(line, ";") THEN Trim(SubSeq(line, 1, Len(line) - 1)) ELSE Trim(line)

\* the body of the loop over the rule lines of parseRules once the
\* variables are substituted and the negative sets expanded: substituted
\* is what is parsed, line what the messages quote
ParseRuleLine(substituted, line, lineNum) ==
  ParseRulePart(StripSemicolon(substituted), IndexOf(StripSemicolon(substituted), "/"),
                line, lineNum)

\* phase 1 of parseRules from line i on: the variable definitions and the
\* rule lines with their line numbers; blank lines and comment lines are
\* passed over
RECURSIVE Classify(_, _, _, _)

ClassifyLine(varDef, lines, i, variables, ruleLines) ==
  IF varDef.isDef
  THEN Classify(lines, i + 1, MapSet(variables, varDef.name, varDef.value), ruleLines)
  ELSE Classify(lines, i + 1, variables,
                Append(ruleLines, [line |-> Trim(lines[i]), lineNum |-> i]))

Classify(lines, i, variables, ruleLines) ==
  IF i > Len(lines) THEN [variables |-> variables, ruleLines |-> ruleLines]
  ELSE IF Trim(lines[i]) = <<>> \/ StartsWith(Trim(lines[i]), "#")
  THEN Classify(lines, i + 1, variables, ruleLines)
  ELSE ClassifyLine(parseVariableDefinition(Trim(lines[i])), lines, i, variables, ruleLines)

\* the rule lines with their variables substituted
SubstitutedLines(ruleLines, resolvedVars) ==
  [j \in 1..Len(ruleLines) |-> substituteVariables(ruleLines[j].line, resolvedVars)]

\* the rule line whose negative sets are expanded
ParseExpanded(expanded, line, lineNum) ==
  IF ~expanded.ok THEN Failure(expanded.error, 0, None)
  ELSE ParseRuleLine(expanded.text, line, lineNum)

RECURSIVE ParseLines(_, _, _, _, _)

\* the rules of one line pushed, or its Error thrown
PushRules(r, ruleLines, j, ruleList, resolvedVars, allPhonemes) ==
  IF ~r.ok THEN r
  ELSE ParseLines(ruleLines, j + 1, ruleList \o r.rules, resolvedVars, allPhonemes)

\* phase 4 of parseRules from the j-th rule line on, after the rules of
\* the lines before
ParseLines(ruleLines, j, ruleList, resolvedVars, allPhonemes) ==
  IF j > Len(ruleLines) THEN Success(ruleList)
  ELSE PushRules(
         ParseExpanded(
           expandNegativeSets(substituteVariables(ruleLines[j].line, resolvedVars),
                              allPhonemes),
           ruleLines[j].line, ruleLines[j].lineNum),
         ruleLines, j, ruleList, resolvedVars, allPhonemes)

\* phases 3 and 4
ParseResolved(r, ruleLines) ==
  IF ~r.ok THEN CircularFailure(r.name)
  ELSE ParseLines(ruleLines, 1, <<>>, r.resolved,
                  collectAllPhonemes(r.resolved,
                                     SubstitutedLines(ruleLines, r.resolved)))

\* phases 2 to 4
ParseClassified(classified) ==
  ParseResolved(resolveVariables(classified.variables), classified.ruleLines)

parseRules(text) == ParseClassified(Classify(Split(text, LF), 1, <<>>, <<>>))

\* ------------------------------------------------------------------ matcher
\* the allowed sets the generated patterns are made of
PositionSets == { {P("p"), P("t")}, {P("a"), P("i")} }

Patterns ==
  { [positions |-> ps] : ps \in UNION { [1..n -> PositionSets] : n \in 0..MaxPatternLen } }

\* the pattern list of the matcher's test of several patterns: V, CV, CVC
VCVCVC ==
  << [positions |-> << {P("a"), P("i")} >>],
     [positions |-> << {P("p"), P("t")}, {P("a"), P("i")} >>],
     [positions |-> << {P("p"), P("t")}, {P("a"), P("i")}, {P("p"), P("t")} >>] >>

MatcherPhonotactics ==
  {NoPhonotactics, Phonotactics(VCVCVC)}
    \cup { Phonotactics(pl) : pl \in UNION { [1..n -> Patterns] : n \in 0..MaxPatterns } }

MatcherTokens == UNION { [1..n -> {P("p"), P("a"), P("x")}] : n \in 0..MaxWordLen }

\* the matcher alone, with the phonotactics of one call
InitMatcher ==
  \E ph \in MatcherPhonotactics :
    /\ createReverser(Scenario(<<>>, <<P("p"), P("t"), P("a"), P("i")>>,
                               <<P("p"), P("t"), P("a"), P("i")>>, ph))
    /\ word = <<>>
    /\ rulesText = <<>>
    /\ NoWordGenerator

\* matchesPhonotactics(tokens, sourcePhonotactics)
matchesPhonotacticsCall ==
  /\ call.op = "none"
  /\ \E tokens \in MatcherTokens :
       call' = [NoCall EXCEPT !.op = "matches", !.tokens = tokens,
                              !.matches = matchesPhonotactics(tokens, sourcePhonotactics)]
  /\ history' = Append(history, call')
  /\ UNCHANGED <<config, cache, word, calls>>

NextMatcher == matchesPhonotacticsCall

SpecMatcher == InitMatcher /\ [][NextMatcher]_vars

\* ----------------------------------------------------------------- compiler
\* the letters rule texts are written with
SourceLetters == <<P("a"), P("b"), P("g"), P("h"), P("k")>>
TargetLetters == <<P("x"), P("y"), P("z"), P("w"), P("v")>>

\* one side of a rule as written: its text, whether it is a class, and the
\* phonemes it names in order
PlainPart(items) ==
  [isClass |-> FALSE, members |-> items, text |-> JoinWith(items, " ")]
ClassPart(items) ==
  [isClass |-> TRUE, members |-> items, text |-> <<"[">> \o JoinWith(items, " ") \o <<"]">>]
NestedPart(items) ==
  [isClass |-> TRUE, members |-> items,
   text |-> <<"[">> \o items[1] \o <<" ", "[">> \o JoinWith(Tail(items), " ") \o <<"]", "]">>]

PartsOver(letters) ==
  {PlainPart(<<>>), PlainPart(SubSeq(letters, 1, 1)), PlainPart(SubSeq(letters, 1, 2))}
    \cup {ClassPart(SubSeq(letters, 1, n)) : n \in 0..MaxClassSize}
    \cup {NestedPart(SubSeq(letters, 1, n)) : n \in 2..MaxClassSize}

FromParts == PartsOver(SourceLetters)
ToParts ==
  PartsOver(TargetLetters) \cup {[isClass |-> FALSE, members |-> <<>>, text |-> <<EmptySet>>]}

\* a context as written after the slash, the error its form earns ("none"
\* for a context that is in order), and the pairs of left and right
\* context it stands for
ContextPart(text, error, variants) == [text |-> text, error |-> error, variants |-> variants]
Sides(l, r) == [leftContext |-> l, rightContext |-> r]

ContextParts ==
  { ContextPart(None, "none", {Sides(Undefined, Undefined)}),
    ContextPart(Some(<<"[", "c", " ", "d", "]", " ", "_">>), "none",
                {Sides(<<P("c")>>, Undefined), Sides(<<P("d")>>, Undefined)}),
    ContextPart(Some(<<"c", " ", "_">>), "none", {Sides(<<P("c")>>, Undefined)}),
    ContextPart(Some(<<"_", " ", "[", "c", " ", "d", "]">>), "none",
                {Sides(Undefined, <<P("c")>>), Sides(Undefined, <<P("d")>>)}),
    ContextPart(Some(<<"[", "c", " ", "d", "]", " ", "_", " ", "[", "e", " ", "f", "]">>), "none",
                {Sides(<<P("c")>>, <<P("e")>>), Sides(<<P("c")>>, <<P("f")>>),
                 Sides(<<P("d")>>, <<P("e")>>), Sides(<<P("d")>>, <<P("f")>>)}),
    ContextPart(Some(<<"#", " ", "_">>), "none", {Sides(<<Boundary>>, Undefined)}),
    ContextPart(Some(<<"_", " ", "#">>), "none", {Sides(Undefined, <<Boundary>>)}),
    ContextPart(Some(<<"c", " ", "[", "d", " ", "e", "]", " ", "_">>), "none",
                {Sides(<<P("c"), P("d")>>, Undefined), Sides(<<P("c"), P("e")>>, Undefined)}),
    ContextPart(Some(<<"(", "c", ")", " ", "_">>), "none",
                {Sides(<<P("c")>>, Undefined), Sides(Undefined, Undefined)}),
    ContextPart(Some(<<"c">>), "NoUnderscore", {}),
    ContextPart(Some(<<"_", " ", "(", "c">>), "UnclosedGroup", {}),
    ContextPart(Some(<<"[", "]", " ", "_">>), "EmptyClass", {}) }

\* what stands before the rule line: nothing, a comment line, a blank line
Leads == { <<>>, <<"#", " ", "c", LF>>, <<" ", LF>> }

RuleForms ==
  { [from |-> f, to |-> t, context |-> c, semicolon |-> s, lead |-> l] :
      f \in FromParts, t \in ToParts, c \in ContextParts, s \in BOOLEAN, l \in Leads }

\* the rule line of a form, and the text it is the last line of
LineOf(form) ==
  form.from.text \o <<" ", ">", " ">> \o form.to.text
    \o (IF form.context.text.def THEN <<" ", "/", " ">> \o form.context.text.text ELSE <<>>)
    \o (IF form.semicolon THEN <<";">> ELSE <<>>)
TextOf(form) == form.lead \o LineOf(form)
LineNumOf(form) == IF form.lead = <<>> THEN 1 ELSE 2

RuleTexts == { TextOf(form) : form \in RuleForms }

\* the rule text of one call of parseRules
InitCompiler ==
  /\ createReverser(Scenario(<<>>, <<>>, <<>>, NoPhonotactics))
  /\ word = <<>>
  /\ rulesText \in RuleTexts
  /\ NoWordGenerator

\* what a call of parseRules returned or threw
ParseCall(r) ==
  [NoCall EXCEPT !.op = "parse", !.ok = r.ok, !.parsed = r.rules,
                 !.error = r.error, !.lineNum = r.lineNum, !.line = r.line,
                 !.variable = r.variable]

\* parseRules(rulesText)
parseRulesCall ==
  /\ call.op = "none"
  /\ call' = ParseCall(parseRules(rulesText))
  /\ history' = Append(history, call')
  /\ UNCHANGED <<config, cache, word, calls>>

NextCompiler == parseRulesCall

SpecCompiler == InitCompiler /\ [][NextCompiler]_vars

\* rule texts with variable definitions
VariableNames == {<<"A">>, <<"B">>, <<"C">>, <<Eng>>}
VariableValues ==
  {<<"x">>, <<"A">>, <<"B">>, <<"[", "C", " ", "x", "]">>, <<Eng>>, <<>>}

DefinitionLine(name, value) == name \o <<" ", "=", " ">> \o value

DefinitionLines ==
  { DefinitionLine(name, value) : name \in VariableNames, value \in VariableValues }

\* the rule line after the definitions, if any
LastLines == { <<>>, <<"A", " ", ">", " ", "y">> }

RECURSIVE JoinLines(_)
JoinLines(lines) ==
  IF Len(lines) = 0 THEN <<>>
  ELSE IF Len(lines) = 1 THEN lines[1]
  ELSE lines[1] \o <<LF>> \o JoinLines(Tail(lines))

VariableTexts ==
  { JoinLines(defs \o <<last>>) :
      defs \in UNION { [1..n -> DefinitionLines] : n \in 1..MaxDefinitions },
      last \in LastLines }

InitVariables ==
  /\ createReverser(Scenario(<<>>, <<>>, <<>>, NoPhonotactics))
  /\ word = <<>>
  /\ rulesText \in VariableTexts
  /\ NoWordGenerator

NextVariables == parseRulesCall

SpecVariables == InitVariables /\ [][NextVariables]_vars

\* rule lines in which classes, parentheses and marks stand next to other
\* content
MixedFroms ==
  { <<"a">>, <<"[", "a", " ", "b", "]", " ", "c">>, <<"a", " ", "[", "b", " ", "c", "]">>,
    <<"[", "a", "]", " ", "[", "b", "]">>, <<"(", "a", ")">>, <<"!", "a">> }
MixedTos ==
  { <<"x">>, <<"[", "x", " ", "y", "]", " ", "z">>, <<"(", "x", ")">> }

\* a context side as written, and whether every class on it holds the
\* empty marker _ while nothing else stands on it
MixedSide(text, vacuous) == [text |-> text, vacuous |-> vacuous]
MixedSides ==
  { MixedSide(<<>>, FALSE),
    MixedSide(<<"c">>, FALSE),
    MixedSide(<<"c", " ", "[", "d", " ", "e", "]">>, FALSE),
    MixedSide(<<"[", "c", " ", "d", "]", " ", "[", "e", " ", "f", "]">>, FALSE),
    MixedSide(<<"[", "d", " ", "e", " ", "_", "]">>, TRUE),
    MixedSide(<<"c", " ", "[", "d", " ", "e", " ", "_", "]">>, FALSE),
    MixedSide(<<"[", "d", " ", "e", " ", "_", "]", " ", "f">>, FALSE),
    MixedSide(<<"[", "a", " ", "_", "]", " ", "[", "b", " ", "_", "]">>, TRUE) }

MixedForms ==
  { [from |-> f, to |-> t, left |-> l, right |-> r] :
      f \in MixedFroms, t \in MixedTos, l \in MixedSides, r \in MixedSides }

SideBefore(part) == IF part.text = <<>> THEN <<>> ELSE part.text \o <<" ">>
SideAfter(part) == IF part.text = <<>> THEN <<>> ELSE <<" ">> \o part.text

MixedText(form) ==
  form.from \o <<" ", ">", " ">> \o form.to \o <<" ", "/", " ">>
    \o SideBefore(form.left) \o <<"_">> \o SideAfter(form.right)

MixedTexts == { MixedText(form) : form \in MixedForms }

InitMixed ==
  /\ createReverser(Scenario(<<>>, <<>>, <<>>, NoPhonotactics))
  /\ word = <<>>
  /\ rulesText \in MixedTexts
  /\ NoWordGenerator

NextMixed == parseRulesCall

SpecMixed == InitMixed /\ [][NextMixed]_vars

\* context sides with optional groups: a side is a sequence of items, an
\* item a phoneme or an optional group of items
Fixed(t) == [kind |-> "fixed", token |-> t, items |-> <<>>]
Optional(items) == [kind |-> "optional", token |-> <<>>, items |-> items]

SideItems ==
  { Fixed(P("c")), Fixed(P("d")),
    Optional(<<Fixed(P("c"))>>), Optional(<<Fixed(P("d"))>>),
    Optional(<<Fixed(P("c")), Optional(<<Fixed(P("d"))>>)>>) }

OptionalSides == UNION { [1..n -> SideItems] : n \in 0..MaxSideItems }

\* a side as written
RECURSIVE ItemsText(_)
ItemText(item) ==
  IF item.kind = "fixed" THEN item.token
  ELSE <<"(">> \o ItemsText(item.items) \o <<")">>
ItemsText(items) ==
  IF Len(items) = 0 THEN <<>>
  ELSE IF Len(items) = 1 THEN ItemText(items[1])
  ELSE ItemText(items[1]) \o <<" ">> \o ItemsText(Tail(items))

OptionalText(left, right) ==
  <<"a", " ", ">", " ", "b", " ", "/", " ">>
    \o (IF Len(left) = 0 THEN <<>> ELSE ItemsText(left) \o <<" ">>)
    \o <<"_">>
    \o (IF Len(right) = 0 THEN <<>> ELSE <<" ">> \o ItemsText(right))

OptionalTexts == { OptionalText(left, right) : left \in OptionalSides, right \in OptionalSides }

InitOptional ==
  /\ createReverser(Scenario(<<>>, <<>>, <<>>, NoPhonotactics))
  /\ word = <<>>
  /\ rulesText \in OptionalTexts
  /\ NoWordGenerator

NextOptional == parseRulesCall

SpecOptional == InitOptional /\ [][NextOptional]_vars

\* rule texts with a negative set: an optional definition of V, an optional
\* rule line before, and the rule line with the negative set
\* a line as written, the literal tokens it names and the rules it compiles to
WrittenLine(text, tokens, ruleSet) == [text |-> text, tokens |-> tokens, rules |-> ruleSet]

NegativeDefinitions ==
  { WrittenLine(<<>>, {}, {}),
    WrittenLine(<<"V", " ", "=", " ", "[", "p", " ", "t", "]", LF>>, {P("p"), P("t")}, {}) }

NegativeOtherLines ==
  { WrittenLine(<<>>, {}, {}),
    WrittenLine(<<"k", " ", ">", " ", EmptySet, " ", "/", " ", "#", " ", "_", LF>>, {P("k")},
                {Rule(<<P("k")>>, <<>>, <<Boundary>>, Undefined)}),
    WrittenLine(<<"a", " ", ">", " ", "b", " ", "/", " ", "(", "c", ")", " ", "_", LF>>,
                {P("a"), P("b"), P("c")},
                {Rule(<<P("a")>>, <<P("b")>>, <<P("c")>>, Undefined),
                 Rule(<<P("a")>>, <<P("b")>>, Undefined, Undefined)}) }

\* what a negative set lists, as written
NegativeLists ==
  { <<>>, <<P("a")>>, <<P("a"), P("b")>>, <<P("p"), P("t")>>, <<Boundary>>, <<P("V")>>,
    <<P("b"), P("V")>>, <<P("a"), P("b"), P("p"), P("t"), P("k"), P("c")>> }

NegativePlaces == {"left", "right", "from"}

NegativeForms ==
  { [definition |-> d, other |-> o, listed |-> l, place |-> pl] :
      d \in NegativeDefinitions, o \in NegativeOtherLines, l \in NegativeLists,
      pl \in NegativePlaces }

NegativeSetText(listed) == <<"!", "[">> \o JoinWith(listed, " ") \o <<"]">>

NegativeLine(form) ==
  IF form.place = "left"
  THEN <<"a", " ", ">", " ", "b", " ", "/", " ">> \o NegativeSetText(form.listed) \o <<" ", "_">>
  ELSE IF form.place = "right"
  THEN <<"a", " ", ">", " ", "b", " ", "/", " ", "_", " ">> \o NegativeSetText(form.listed)
  ELSE NegativeSetText(form.listed) \o <<" ", ">", " ", "b">>

NegativeText(form) == form.definition.text \o form.other.text \o NegativeLine(form)

NegativeTexts == { NegativeText(form) : form \in NegativeForms }

InitNegative ==
  /\ createReverser(Scenario(<<>>, <<>>, <<>>, NoPhonotactics))
  /\ word = <<>>
  /\ rulesText \in NegativeTexts
  /\ NoWordGenerator

NextNegative == parseRulesCall

SpecNegative == InitNegative /\ [][NextNegative]_vars

\* ----------------------------------------------------------- word generator
CHUNK_SIZE == 200

\* generateAllWords(phonotactics): the word list, named by the phonotactics
\* it is generated from, and the number of its words
WordCount(phonotactics) ==
  CASE phonotactics = "CV" -> 400
    [] phonotactics = "VC" -> 400
    [] phonotactics = "CVC" -> 300
    [] OTHER -> 0
generateAllWords(phonotactics) == [of |-> phonotactics, length |-> WordCount(phonotactics)]

Min(a, b) == IF a < b THEN a ELSE b

currentPhonotactics ==
  IF side = "source" THEN props.sourcePhonotactics ELSE props.targetPhonotactics
words == generateAllWords(currentPhonotactics)

\* the template string `${side}|${words.length}|${rules.length}|...`
currentInputKey ==
  <<side, words.length, Len(props.rules), Len(props.sourcePhonemeSet),
    Len(props.targetPhonemeSet)>>

analysisValid == analysisStatus = "done" /\ analysisInputKey = currentInputKey

\* getReverser(): the instance it returns, which it also keeps
getReverser ==
  IF reverserKey # currentInputKey \/ ~reverser.def THEN ReverserOf(props) ELSE reverser

\* the entries of the chunk that starts at word i: whether they hold an
\* output, inputs or an error, the word list they are entries of, and the
\* side and props they were computed with. reverseWord is null in a run
\* that started on the source side, and calling it throws.
ChunkEntry(run, i) ==
  IF side = "source"
  THEN [first |-> i, words |-> run.allWords, result |-> "output", side |-> "source",
        props |-> props]
  ELSE IF run.reverseWord.def
  THEN [first |-> i, words |-> run.allWords, result |-> "inputs", side |-> "target",
        props |-> run.reverseWord.props]
  ELSE [first |-> i, words |-> run.allWords, result |-> "error", side |-> "target",
        props |-> props]

\* a call of runAnalysis: its locals, where it stands (awaiting the timer,
\* returned from the loop, or past its last statement), and what happened
\* to it: whether its inputs were replaced or a later call was made while
\* it was awaiting, and whether it then went on to another chunk or wrote
\* its results
NewRun(token) ==
  [token |-> token, targetKey |-> currentInputKey, allWords |-> words,
   reverseWord |-> IF side = "target" THEN getReverser ELSE NoReverser,
   i |-> 0, entries |-> <<>>, pc |-> "awaiting",
   superseded |-> FALSE, wentOn |-> FALSE, wrote |-> FALSE]

WithChunk(run, i) ==
  [run EXCEPT !.i = i, !.entries = Append(run.entries, ChunkEntry(run, i)),
              !.wentOn = run.superseded]

Supersede(rs) ==
  [t \in 1..Len(rs) |->
     IF rs[t].pc = "awaiting" THEN [rs[t] EXCEPT !.superseded = TRUE] ELSE rs[t]]

reverserState ==
  <<rules, sourcePhonemes, targetPhonemes, sourcePhonotactics, expandedSourcePhonemes,
    sortedTargetPhonemes, sortedSourcePhonemes, cache, word, call, calls, history,
    rulesText>>

\* the side buttons
setSide(newSide) ==
  /\ side' = newSide
  /\ activeFilter' = "all"
  /\ analysisEntries' = <<>>
  /\ analysisStatus' = "idle"
  /\ analysisInputKey' = <<>>
  /\ runs' = IF newSide # side THEN Supersede(runs) ELSE runs
  /\ UNCHANGED <<props, analysisProgress, currentToken, reverser, reverserKey, reverserState>>

\* the filter tabs, which are there while analysisValid
Filters ==
  IF side = "source" THEN {"all", "no-output", "has-output"}
  ELSE {"all", "no-source", "single", "multiple"}

setFilter(f) ==
  /\ analysisValid
  /\ f \in Filters
  /\ activeFilter' = f
  /\ UNCHANGED <<props, side, analysisStatus, analysisProgress, analysisEntries,
                 analysisInputKey, currentToken, reverser, reverserKey, runs, reverserState>>

\* the parent passes other props
setProps(p) ==
  /\ p # props
  /\ props' = p
  /\ runs' = IF p.rules # props.rules THEN Supersede(runs) ELSE runs
  /\ UNCHANGED <<side, analysisStatus, analysisProgress, analysisEntries, activeFilter,
                 analysisInputKey, currentToken, reverser, reverserKey, reverserState>>

\* runAnalysis() up to its first await: the button is there while no
\* analysis is running and there are words
runAnalysis ==
  /\ analysisStatus # "running"
  /\ words.length > 0
  /\ currentToken < MaxRuns
  /\ currentToken' = currentToken + 1
  /\ analysisStatus' = "running"
  /\ analysisEntries' = <<>>
  /\ activeFilter' = "all"
  /\ reverser' = IF side = "target" THEN getReverser ELSE reverser
  /\ reverserKey' = IF side = "target" THEN currentInputKey ELSE reverserKey
  /\ analysisProgress' = Min(CHUNK_SIZE, words.length)
  /\ runs' = Append(Supersede(runs), WithChunk(NewRun(currentToken + 1), 0))
  /\ UNCHANGED <<props, side, analysisInputKey, reverserState>>

\* the call with this token goes on after its await: the next chunk, the
\* return from the loop, or the statements after the loop
Resume(token) ==
  /\ token \in 1..Len(runs)
  /\ runs[token].pc = "awaiting"
  /\ LET run == runs[token]
         i == run.i + CHUNK_SIZE
     IN IF i < run.allWords.length
        THEN IF currentToken # token
             THEN /\ runs' = [runs EXCEPT ![token].pc = "returned"]
                  /\ UNCHANGED <<analysisStatus, analysisProgress, analysisEntries,
                                 analysisInputKey>>
             ELSE /\ runs' = [runs EXCEPT ![token] = WithChunk(run, i)]
                  /\ analysisProgress' = Min(i + CHUNK_SIZE, run.allWords.length)
                  /\ UNCHANGED <<analysisStatus, analysisEntries, analysisInputKey>>
        ELSE IF currentToken = token
             THEN /\ analysisEntries' = run.entries
                  /\ analysisInputKey' = run.targetKey
                  /\ analysisStatus' = "done"
                  /\ runs' = [runs EXCEPT ![token].pc = "finished",
                                          ![token].wrote = run.superseded]
                  /\ UNCHANGED analysisProgress
             ELSE /\ runs' = [runs EXCEPT ![token].pc = "finished"]
                  /\ UNCHANGED <<analysisStatus, analysisProgress, analysisEntries,
                                 analysisInputKey>>
  /\ UNCHANGED <<props, side, activeFilter, currentToken, reverser, reverserKey,
                 reverserState>>

\* the props the parent passes: two rule lists of one rule, a list of two,
\* an inventory of the same size, other phonotactics with as many words
GeneratorProps ==
  { Props(<<Rule(<<P("a")>>, <<P("x")>>, Undefined, Undefined)>>,
          <<P("a"), P("b")>>, <<P("x"), P("y")>>, "CV", "CVC"),
    Props(<<Rule(<<P("b")>>, <<P("y")>>, Undefined, Undefined)>>,
          <<P("a"), P("b")>>, <<P("x"), P("y")>>, "CV", "CVC"),
    Props(<<Rule(<<P("a")>>, <<P("x")>>, Undefined, Undefined),
            Rule(<<P("b")>>, <<P("y")>>, Undefined, Undefined)>>,
          <<P("a"), P("b")>>, <<P("x"), P("y")>>, "CV", "CVC"),
    Props(<<Rule(<<P("a")>>, <<P("x")>>, Undefined, Undefined)>>,
          <<P("a"), P("c")>>, <<P("x"), P("y")>>, "CV", "CVC"),
    Props(<<Rule(<<P("a")>>, <<P("x")>>, Undefined, Undefined)>>,
          <<P("a"), P("b")>>, <<P("x"), P("y")>>, "VC", "CVC") }

InitAnalysis ==
  /\ createReverser(Scenario(<<>>, <<>>, <<>>, NoPhonotactics))
  /\ word = <<>>
  /\ rulesText = <<>>
  /\ \E p \in GeneratorProps : Mounted(p)

NextAnalysis ==
  \/ runAnalysis
  \/ \E token \in 1..MaxRuns : Resume(token)
  \/ \E newSide \in {"source", "target"} : setSide(newSide)
  \/ \E p \in GeneratorProps : setProps(p)
  \/ \E f \in {"all", "no-output", "has-output", "no-source", "single", "multiple"} : setFilter(f)

SpecAnalysis == InitAnalysis /\ [][NextAnalysis]_vars

\* =================================================================== claims
Range(arr) == {arr[n] : n \in 1..Len(arr)}

\* a reversal has returned
Reversed == call.op = "reverse" /\ call.ok

\* the rule reversed at step n of the last reversal, the candidates it was
\* given and the candidates it left
StepRule(n) == rules[Len(rules) - n + 1]
Before(n) == {deserializeTokens(k) : k \in call.trace[n]}
After(n) == {deserializeTokens(k) : k \in call.trace[n + 1]}
Steps == 1..Len(rules)

\* tokens with from put in place of the len tokens that start at index i
Spliced(tokens, i, len, from) ==
  [n \in 1..(Len(tokens) - len + Len(from)) |->
     IF n <= i THEN tokens[n]
     ELSE IF n <= i + Len(from) THEN from[n - i]
     ELSE tokens[n - Len(from) + len]]

\* the left and right context of a rule around the len tokens at index i
ContextHolds(tokens, i, len, rule) ==
  /\ \/ rule.leftContext = Undefined
     \/ rule.leftContext = <<Boundary>> /\ i = 0
     \/ /\ rule.leftContext # <<Boundary>>
        /\ Len(rule.leftContext) <= i
        /\ SubSeq(tokens, i - Len(rule.leftContext) + 1, i) = rule.leftContext
  /\ \/ rule.rightContext = Undefined
     \/ rule.rightContext = <<Boundary>> /\ i + len = Len(tokens)
     \/ /\ rule.rightContext # <<Boundary>>
        /\ i + len + Len(rule.rightContext) <= Len(tokens)
        /\ SubSeq(tokens, i + len + 1, i + len + Len(rule.rightContext)) = rule.rightContext

Unconditional(rule) == rule.leftContext = Undefined /\ rule.rightContext = Undefined

RuleAX == Rule(<<P("a")>>, <<P("x")>>, Undefined, Undefined)
RuleBY == Rule(<<P("b")>>, <<P("y")>>, Undefined, Undefined)
RuleCX == Rule(<<P("c")>>, <<P("x")>>, Undefined, Undefined)
RuleAB == Rule(<<P("a")>>, <<P("b")>>, Undefined, Undefined)
RuleBC == Rule(<<P("b")>>, <<P("c")>>, Undefined, Undefined)
RuleH == Rule(<<P("h")>>, <<>>, Undefined, Undefined)
RuleHFinal == Rule(<<P("h")>>, <<>>, Undefined, <<Boundary>>)

\* --- C2 -----------------------------------------------------------------
C2_Case ==
  /\ Reversed
  /\ rules = <<RuleAX, RuleBY, RuleCX>>
  /\ sourcePhonemes = <<P("a"), P("b"), P("c")>>
  /\ targetPhonemes = <<P("x"), P("y")>>
  /\ word = <<"x", "y", "x">>

C3_DeletionInsertsEverywhere ==
  /\ Reversed =>
       \A n \in Steps :
         (Len(StepRule(n).to) = 0 /\ Unconditional(StepRule(n))) =>
           \A c \in Before(n) : \A i \in 0..Len(c) :
             Spliced(c, i, 0, StepRule(n).from) \in After(n)
  /\ (call.op = "reverse" /\ rules = <<RuleH>> /\ sourcePhonemes = Hello
        /\ word = <<"e", "l", "l", "o">>)
     => /\ call.ok
        /\ Len(call.words) = 6
        /\ Range(call.words) =
             { <<"h", "e", "l", "l", "o">>, <<"e", "h", "l", "l", "o">>,
               <<"e", "l", "h", "l", "o">>, <<"e", "l", "l", "h", "o">>,
               <<"e", "l", "l", "o", "h">>, <<"e", "l", "l", "o">> }

C3_Witness ==
  /\ Reversed /\ rules = <<RuleH>> /\ sourcePhonemes = Hello
  /\ word = <<"e", "l", "l", "o">>
  /\ <<"e", "l", "l", "o", "h">> \in Range(call.words)

\* --- C5 -----------------------------------------------------------------
\* C5: reverse takes the rules from the last to the first, each one acting
\* on the whole candidate set left by the rule after it; with rules a>b,
\* b>c, source inventory {a} and target inventory {c}, "c" reverses to
\* exactly a.
C5_ReverseOrder ==
  /\ Reversed =>
       /\ Len(call.trace) = Len(rules) + 1
       /\ \A n \in Steps :
            After(n) = UNION { Range(reverseOneRule(c, StepRule(n), expandedSourcePhonemes))
                               : c \in Before(n) }
  /\ (call.op = "reverse" /\ rules = <<RuleAB, RuleBC>> /\ sourcePhonemes = <<P("a")>>
        /\ targetPhonemes = <<P("c")>> /\ word = <<"c">>)
     => call.ok /\ call.words = << <<"a">> >>

C5_Witness ==
  /\ Reversed /\ rules = <<RuleAB, RuleBC>> /\ sourcePhonemes = <<P("a")>>
  /\ targetPhonemes = <<P("c")>> /\ word = <<"c">>
  /\ call.trace[2] = {<<"c">>, <<"b">>}

\* --- C1 -----------------------------------------------------------------
NoDeletionRule == \A n \in 1..Len(rules) : Len(rules[n].to) > 0

FromInSource(rule) == \A k \in 1..Len(rule.from) : Includes(sourcePhonemes, rule.from[k])

\* C4: in the pre-image set of a deletion rule the unchanged candidate is
\* included only if every token of from is in the source inventory given to
\* reverse; for h > 0, target "ello" and source inventory {e,l,o} the result
\* is exactly hello, ehllo, elhlo, ellho, elloh, without "ello".
C4_UnchangedOnlyIfFromInSource ==
  /\ (Reversed /\ Len(rules) >= 1) =>
       ((Len(StepRule(1).to) = 0 /\ ~FromInSource(StepRule(1))) =>
          \A c \in Before(1) : c \notin After(1))
  /\ (call.op = "reverse" /\ rules = <<RuleH>> /\ sourcePhonemes = Ello
        /\ word = <<"e", "l", "l", "o">>)
     => /\ call.ok
        /\ Range(call.words) =
             { <<"h", "e", "l", "l", "o">>, <<"e", "h", "l", "l", "o">>,
               <<"e", "l", "h", "l", "o">>, <<"e", "l", "l", "h", "o">>,
               <<"e", "l", "l", "o", "h">> }

\* --- C6 -----------------------------------------------------------------
\* the start indices where `to` occurs in c with the context of the rule
Occurrences(c, rule) ==
  { i \in 0..(Len(c) - Len(rule.to)) :
      /\ SubSeq(c, i + 1, i + Len(rule.to)) = rule.to
      /\ ContextHolds(c, i, Len(rule.to), rule) }

Highest(S) == CHOOSE p \in S : \A q \in S : q <= p
Lowest(S) == CHOOSE p \in S : \A q \in S : p <= q

\* c with the occurrence at every index of S replaced by from
RECURSIVE ReplaceAt(_, _, _)
ReplaceAt(c, S, rule) ==
  IF S = {} THEN c
  ELSE ReplaceAt(Spliced(c, Highest(S), Len(rule.to), rule.from),
                 S \ {Highest(S)}, rule)

\* the occurrences of S taken left to right, leaving out each one that
\* overlaps the one taken before it
RECURSIVE LeftToRight(_, _)
LeftToRight(S, len) ==
  IF S = {} THEN {}
  ELSE {Lowest(S)} \cup LeftToRight({q \in S : q >= Lowest(S) + len}, len)

\* the subset of occurrences that mask m stands for
MaskSubset(c, rule, m) ==
  LET occ == Occurrences(c, rule)
  IN { p \in occ : (m \div (2 ^ Cardinality({q \in occ : q < p}))) % 2 = 1 }

SubstitutionSteps ==
  { <<n, c>> \in Steps \X UNION {Before(n) : n \in Steps} :
      /\ c \in Before(n)
      /\ Len(StepRule(n).to) > 0
      /\ Occurrences(c, StepRule(n)) # {} }

\* C6 as stated: for a non-deletion rule with k occurrences of `to` in a
\* candidate, the pre-images are the 2^k results, one per subset of the
\* occurrences, of replacing exactly the occurrences of the subset by from.
C6_ExactSubsets ==
  Reversed =>
    \A nc \in SubstitutionSteps :
      LET rule == StepRule(nc[1])
          c == nc[2]
          pre == reverseOneRule(c, rule, expandedSourcePhonemes)
      IN /\ Len(pre) = 2 ^ Cardinality(Occurrences(c, rule))
         /\ \A m \in 1..Len(pre) : pre[m] = ReplaceAt(c, MaskSubset(c, rule, m - 1), rule)

\* C6 amended: the 2^k results are, one per subset of the occurrences, the
\* replacement left to right of the occurrences of the subset that do not
\* overlap an occurrence already replaced; every other occurrence stays.
C6_LeftToRightSubsets ==
  Reversed =>
    \A nc \in SubstitutionSteps :
      LET rule == StepRule(nc[1])
          c == nc[2]
          pre == reverseOneRule(c, rule, expandedSourcePhonemes)
      IN /\ Len(pre) = 2 ^ Cardinality(Occurrences(c, rule))
         /\ \A m \in 1..Len(pre) :
              pre[m] = ReplaceAt(c, LeftToRight(MaskSubset(c, rule, m - 1), Len(rule.to)), rule)
         /\ Range(pre) \subseteq After(nc[1])

C6_Witness ==
  /\ Reversed
  /\ \E nc \in SubstitutionSteps :
       /\ Cardinality(Occurrences(nc[2], StepRule(nc[1]))) >= 2
       /\ ReplaceAt(nc[2], Occurrences(nc[2], StepRule(nc[1])), StepRule(nc[1]))
            \in After(nc[1])

\* --- C7 -----------------------------------------------------------------
\* C7: for a non-deletion rule, a candidate with no start index at which
\* `to` occurs with the context satisfied has exactly itself as pre-image.
C7_NoOccurrenceUnchanged ==
  Reversed =>
    \A n \in Steps : \A c \in Before(n) :
      (Len(StepRule(n).to) > 0 /\ Occurrences(c, StepRule(n)) = {}) =>
        /\ reverseOneRule(c, StepRule(n), expandedSourcePhonemes) = <<c>>
        /\ (Before(n) = {c} => After(n) = {c})

\* `to` is in the candidate, but nowhere with the context of the rule
C7_Witness ==
  /\ Reversed /\ Len(rules) = 1 /\ Len(rules[1].to) > 0
  /\ \E c \in Before(1) :
       /\ \E i \in 0..(Len(c) - Len(rules[1].to)) :
            SubSeq(c, i + 1, i + Len(rules[1].to)) = rules[1].to
       /\ Occurrences(c, rules[1]) = {}
       /\ After(1) = {c}

\* --- C8 -----------------------------------------------------------------
\* C8: for a deletion rule with a context, the insertion of from at index i
\* is a pre-image only if the left and right context hold around the
\* inserted span in the resulting sequence; for h > 0 / _ #, target "ello"
\* and source inventory {h,e,l,o} the result is exactly ello, elloh.
C8_InsertionNeedsContext ==
  /\ Reversed =>
       \A n \in Steps : \A c \in Before(n) :
         Len(StepRule(n).to) = 0 =>
           \A r \in Range(reverseOneRule(c, StepRule(n), expandedSourcePhonemes)) :
             \/ r = c
             \/ \E i \in 0..Len(c) :
                  /\ r = Spliced(c, i, 0, StepRule(n).from)
                  /\ ContextHolds(r, i, Len(StepRule(n).from), StepRule(n))
  /\ (call.op = "reverse" /\ rules = <<RuleHFinal>> /\ sourcePhonemes = Hello
        /\ word = <<"e", "l", "l", "o">>)
     => call.ok /\ call.words = << <<"e", "l", "l", "o">>, <<"e", "l", "l", "o", "h">> >>

C8_Witness ==
  /\ Reversed /\ rules = <<RuleHFinal>> /\ sourcePhonemes = Hello
  /\ word = <<"e", "l", "l", "o">>
  /\ After(1) = { <<P("e"), P("l"), P("l"), P("o")>>,
                  <<P("e"), P("l"), P("l"), P("o"), P("h")>> }

\* --- C9 -----------------------------------------------------------------
\* the supplied source inventory and the from tokens of the deletion rules
EffectiveSource ==
  Range(sourcePhonemes) \cup
    UNION { Range(rules[n].from) : n \in {m \in 1..Len(rules) : Len(rules[m].to) = 0} }

\* C9: every word returned by reverse tokenizes under the effective source
\* inventory: the supplied source inventory plus exactly the from tokens of
\* the deletion rules.
C9_ResultsTokenize ==
  Reversed =>
    /\ Range(expandedSourcePhonemes) = EffectiveSource
    /\ \A w \in Range(call.words) : tokenize(w, SetToSeq(EffectiveSource)).ok

\* a returned word that needs a phoneme only a deletion rule brings in
C9_Witness ==
  /\ Reversed
  /\ \E w \in Range(call.words) : ~tokenize(w, sourcePhonemes).ok
  /\ \E n \in 1..Len(rules) : Len(rules[n].to) > 0 /\ ~FromInSource(rules[n])

\* --- C10 ----------------------------------------------------------------
\* every way of cutting text into non-empty tokens
RECURSIVE Segmentations(_)
Segmentations(text) ==
  IF Len(text) = 0 THEN {<<>>}
  ELSE UNION { { <<SubSeq(text, 1, k)>> \o rest :
                 rest \in Segmentations(SubSeq(text, k + 1, Len(text))) }
               : k \in 1..Len(text) }

FitsPattern(tokens, pattern) ==
  /\ Len(tokens) = Len(pattern.positions)
  /\ \A i \in 1..Len(tokens) : tokens[i] \in pattern.positions[i]

\* the candidates left after the last rule was reversed
FinalCandidates == {deserializeTokens(k) : k \in call.trace[Len(call.trace)]}

\* C10: with source phonotactics declared, every word returned by reverse
\* has a token sequence that matches some source pattern; if the only
\* pattern has two positions and every candidate pre-image has three
\* tokens, the result is empty.
C10_ResultsFitPhonotactics ==
  (Reversed /\ sourcePhonotactics.present) =>
    /\ \A w \in Range(call.words) :
         \E t \in Segmentations(w) :
           \E n \in 1..Len(sourcePhonotactics.patterns) :
             FitsPattern(t, sourcePhonotactics.patterns[n])
    /\ ( ( /\ Len(sourcePhonotactics.patterns) = 1
           /\ Len(sourcePhonotactics.patterns[1].positions) = 2
           /\ \A c \in FinalCandidates : Len(c) = 3 )
         => call.words = <<>> )

\* three-token candidates that the source inventory accepts, all dropped by
\* the two-position pattern
C10_Witness ==
  /\ Reversed /\ sourcePhonotactics.present
  /\ Len(sourcePhonotactics.patterns[1].positions) = 2
  /\ \A c \in FinalCandidates : Len(c) = 3
  /\ \E c \in FinalCandidates : tokenize(Join(c), sourcePhonemes).ok
  /\ call.words = <<>>

\* --- C11 ----------------------------------------------------------------
\* the candidates left by the last rule that the final filter lets through:
\* the joined text tokenizes under the source inventory of the filter and
\* the tokens fit the source phonotactics when there are any
PassingCandidates ==
  { c \in FinalCandidates :
      /\ tokenize(Join(c), SetToSeq(EffectiveSource)).ok
      /\ (sourcePhonotactics.present =>
            \E n \in 1..Len(sourcePhonotactics.patterns) :
              FitsPattern(c, sourcePhonotactics.patterns[n])) }

RuleAXOnly ==
  /\ rules = <<RuleAX>> /\ sourcePhonemes = <<P("a"), P("b"), P("c")>>
  /\ targetPhonemes = <<P("x")>> /\ word = <<"x">>

\* C11: a reversal of a word that tokenizes under the target inventory
\* raises no error, whatever its candidates; a candidate whose joined text
\* does not tokenize under the source inventory of the final filter is left
\* out and every candidate that passes the filter is returned; with a > x,
\* source inventory {a,b,c} and target inventory {x}, "x" reverses to a.
C11_InvalidCandidatesDropped ==
  /\ call.op = "reverse" =>
       /\ call.ok = tokenize(word, targetPhonemes).ok
       /\ call.ok => Range(call.words) = {Join(c) : c \in PassingCandidates}
  /\ (call.op = "reverse" /\ RuleAXOnly) => call.ok /\ call.words = << <<"a">> >>

\* a candidate that does not tokenize, next to one that is returned
C11_Witness ==
  /\ Reversed
  /\ \E c \in FinalCandidates : ~tokenizeWith(Join(c), sortedSourcePhonemes).ok
  /\ \E c \in FinalCandidates : Join(c) \in Range(call.words)

\* --- C12 ----------------------------------------------------------------
\* an application has returned
Applied == call.op = "apply" /\ call.ok

RuleABThenBC ==
  /\ rules = <<RuleAB, RuleBC>> /\ sourcePhonemes = <<P("a"), P("b")>>
  /\ targetPhonemes = <<P("b"), P("c")>> /\ word = <<"a">>

FromOccurrences(c, rule) ==
  { i \in 0..(Len(c) - Len(rule.from)) :
      /\ SubSeq(c, i + 1, i + Len(rule.from)) = rule.from
      /\ ContextHolds(c, i, Len(rule.from), rule) }

\* c with the len tokens at every index of S replaced by repl
RECURSIVE ReplaceSpans(_, _, _, _)
ReplaceSpans(c, S, len, repl) ==
  IF S = {} THEN c
  ELSE ReplaceSpans(Spliced(c, Highest(S), len, repl), S \ {Highest(S)}, len, repl)

\* the occurrences one pass matches: the first one, then the first one that
\* starts at or after the end of the one matched before
Matched(c, rule) == LeftToRight(FromOccurrences(c, rule), Len(rule.from))

RuleAJ == Rule(<<P("a"), P("j")>>, <<P("e")>>, Undefined, Undefined)

C13_WitnessEmitted ==
  /\ Applied /\ Len(rules) = 1
  /\ Matched(call.trace[1], rules[1]) # {}
  /\ FromOccurrences(call.trace[2], rules[1]) # {}

\* --- C14 ----------------------------------------------------------------
HasPrefix(text, p) == Len(p) <= Len(text) /\ SubSeq(text, 1, Len(p)) = p

Rest(text, pos) == SubSeq(text, pos + 1, Len(text))

\* every token of t is, at its position in text, the longest member of the
\* inventory that is a prefix of the text that remains
LongestAtEachPosition(t, text, inventory) ==
  \A k \in 1..Len(t) :
    LET rest == Rest(text, Len(Join(SubSeq(t, 1, k - 1))))
    IN /\ t[k] \in Range(inventory)
       /\ HasPrefix(rest, t[k])
       /\ \A p \in Range(inventory) : HasPrefix(rest, p) => Len(p) <= Len(t[k])

\* no member of the inventory is a prefix of the text from pos on
NoPrefixAt(text, pos, inventory) ==
  pos < Len(text) /\ \A p \in Range(inventory) : ~HasPrefix(Rest(text, pos), p)

\* the inventory the last call tokenized its word with, and the tokens
TokenizedWith == IF call.op = "apply" THEN sourcePhonemes ELSE targetPhonemes
Tokenized ==
  IF call.op = "apply" THEN call.trace[1]
  ELSE deserializeTokens(CHOOSE k \in call.trace[1] : TRUE)

\* C14 as stated: the tokens returned join to the word and each is the
\* longest inventory member that is a prefix of the remaining text;
\* otherwise the failure names the first position of the word at which no
\* inventory member is a prefix.
C14_FirstPositionWithoutPrefix ==
  call.op \in {"apply", "reverse"} =>
    IF call.ok
    THEN /\ Join(Tokenized) = word
         /\ LongestAtEachPosition(Tokenized, word, TokenizedWith)
    ELSE /\ NoPrefixAt(word, call.pos, TokenizedWith)
         /\ \A p \in 0..(call.pos - 1) : ~NoPrefixAt(word, p, TokenizedWith)

\* C14 amended: the tokens returned join to the word and each is the longest
\* inventory member that is a prefix of the remaining text; otherwise the
\* failure names the first position the scan reaches at which no inventory
\* member is a prefix: the end of the longest-match tokens before it.
C14_FirstPositionReached ==
  call.op \in {"apply", "reverse"} =>
    IF call.ok
    THEN /\ Join(Tokenized) = word
         /\ LongestAtEachPosition(Tokenized, word, TokenizedWith)
    ELSE /\ NoPrefixAt(word, call.pos, TokenizedWith)
         /\ \E t \in Segmentations(SubSeq(word, 1, call.pos)) :
              LongestAtEachPosition(t, word, TokenizedWith)

\* a failure right after a token of two characters
C14_Witness ==
  /\ call.op = "apply" /\ ~call.ok /\ call.pos = 2 /\ Len(word) = 3
  /\ tokenize(SubSeq(word, 1, 2), sourcePhonemes).tokens = <<SubSeq(word, 1, 2)>>

\* --- C15 ----------------------------------------------------------------
\* C15: matches(tokens, patterns) is true when patterns is absent;
\* otherwise it is true exactly when some pattern has as many positions as
\* there are tokens and every token is in the allowed set of its position;
\* an empty pattern list matches no token sequence.
C15_MatchesSomePattern ==
  call.op = "matches" =>
    /\ ~sourcePhonotactics.present => call.matches
    /\ sourcePhonotactics.present =>
         /\ call.matches <=>
              \E n \in 1..Len(sourcePhonotactics.patterns) :
                /\ Len(sourcePhonotactics.patterns[n].positions) = Len(call.tokens)
                /\ \A i \in 1..Len(call.tokens) :
                     call.tokens[i] \in sourcePhonotactics.patterns[n].positions[i]
         /\ sourcePhonotactics.patterns = <<>> => ~call.matches
    /\ (sourcePhonotactics = Phonotactics(VCVCVC) /\ call.tokens = <<P("p"), P("a")>>)
         => call.matches

\* the second of two patterns matches and the first does not
C15_Witness ==
  /\ call.op = "matches" /\ sourcePhonotactics.present
  /\ Len(sourcePhonotactics.patterns) = 2
  /\ ~FitsPattern(call.tokens, sourcePhonotactics.patterns[1])
  /\ Len(sourcePhonotactics.patterns[1].positions) = Len(call.tokens)
  /\ call.matches

\* the empty pattern list turns a token sequence down
C15_WitnessEmptyList ==
  /\ call.op = "matches" /\ sourcePhonotactics.present
  /\ sourcePhonotactics.patterns = <<>> /\ ~call.matches

\* --- C16 ----------------------------------------------------------------
\* what a call gave back to its caller
Outcome(c) == [ok |-> c.ok, pos |-> c.pos, output |-> c.output, words |-> Range(c.words)]

\* two calls of the same function with the same word; the rules, the
\* inventories and the phonotactics are those of the behaviour
SameCall(c, d) == c.op = d.op /\ c.word = d.word

Fresh(w) == reverseRules(w, rules, sourcePhonemes, targetPhonemes, sourcePhonotactics)

\* C17: a call of the reusable reverser with word w, after any earlier
\* calls on it, returns the words a fresh reverse of w returns with the same
\* rules, inventories and phonotactics, and fails when that one fails.
C17_InstanceEqualsFresh ==
  /\ \A i \in 1..Len(history) :
       history[i].op = "reverseWord" =>
         /\ history[i].ok = Fresh(history[i].word).ok
         /\ history[i].words = Fresh(history[i].word).words
  /\ \A v \in DOMAIN cache : cache[v] = Fresh(v).words

\* the third call finds the result of the first one in the cache, after a
\* call with another word and another result
C17_Witness ==
  /\ Len(history) = 3 /\ call.op = "reverseWord" /\ call.hit
  /\ history[1].op = "reverseWord" /\ history[1].word = call.word
  /\ history[2].op = "reverseWord" /\ history[2].word # call.word
  /\ call.words # <<>> /\ history[2].words # <<>>
  /\ history[2].words # call.words

\* --- C18 ----------------------------------------------------------------
Reversals == {"reverse", "reverseWord"}

\* C18: a reverse call whose word does not tokenize under the target
\* inventory fails with the tokenization error of that word, and so does
\* every repetition of it, on the same reverser instance too; the failure
\* is not kept as a result and the results of the other words stay those
\* of a fresh reverse.
C18_FailureNotStored ==
  /\ \A i \in 1..Len(history) :
       (history[i].op \in Reversals /\ ~tokenize(history[i].word, targetPhonemes).ok)
         => /\ ~history[i].ok
            /\ history[i].pos = tokenize(history[i].word, targetPhonemes).pos
            /\ history[i].words = <<>>
            /\ ~history[i].hit
  /\ \A i \in 1..Len(history) : \A j \in 1..Len(history) :
       (history[i].op \in Reversals /\ ~history[i].ok /\ SameCall(history[i], history[j]))
         => Outcome(history[i]) = Outcome(history[j])
  /\ \A v \in DOMAIN cache : tokenize(v, targetPhonemes).ok
  /\ \A i \in 1..Len(history) :
       (history[i].op = "reverseWord" /\ history[i].ok)
         => history[i].words = Fresh(history[i].word).words

\* the same failing call before and after a call that succeeds
C18_Witness ==
  /\ Len(history) = 3
  /\ history[1].op = "reverseWord" /\ ~history[1].ok
  /\ history[3] = history[1]
  /\ history[2].op = "reverseWord" /\ history[2].ok /\ history[2].words # <<>>
  /\ DOMAIN cache = {history[2].word}


\* the forms with their texts, and the form rulesText was written from
FormTable == { <<TextOf(form), form>> : form \in RuleForms }
Written == (CHOOSE p \in FormTable : p[1] = rulesText)[2]

Compiled == call.op = "parse"

RuleSet(ruleList) == { ruleList[k] : k \in 1..Len(ruleList) }

\* a class in from and a class in `to` with as many members
Paired(form) ==
  /\ form.from.isClass /\ form.to.isClass
  /\ Len(form.from.members) > 0
  /\ Len(form.from.members) = Len(form.to.members)

\* member k of from going to member k of `to`, in every context variant
PairedRules(form) ==
  { Rule(<<form.from.members[k]>>, <<form.to.members[k]>>, v.leftContext, v.rightContext) :
      k \in 1..Len(form.from.members), v \in form.context.variants }

MultipleClasses ==
  <<"[", "a", " ", "b", "]", " ", ">", " ", "[", "x", " ", "y", "]", " ", "/", " ",
    "[", "c", " ", "d", "]", " ", "_">>

\* C19: compiling [a b] > [x y] / [c d] _ yields exactly the 4 rules
\* a>x/c_, a>x/d_, b>y/c_, b>y/d_; in general the members of a class in
\* from and of a class in `to` are paired by position, and every pair is
\* combined with every context variant and with nothing else.
C19_PairedByPosition ==
  /\ (Compiled /\ rulesText = MultipleClasses) =>
       /\ call.ok
       /\ Len(call.parsed) = 4
       /\ RuleSet(call.parsed) =
            { Rule(<<P("a")>>, <<P("x")>>, <<P("c")>>, Undefined),
              Rule(<<P("a")>>, <<P("x")>>, <<P("d")>>, Undefined),
              Rule(<<P("b")>>, <<P("y")>>, <<P("c")>>, Undefined),
              Rule(<<P("b")>>, <<P("y")>>, <<P("d")>>, Undefined) }
  /\ (Compiled /\ Paired(Written) /\ Written.context.error = "none") =>
       /\ call.ok
       /\ Len(call.parsed) =
            Len(Written.from.members) * Cardinality(Written.context.variants)
       /\ RuleSet(call.parsed) = PairedRules(Written)

C19_Witness ==
  /\ Compiled /\ rulesText = MultipleClasses
  /\ call.ok /\ Len(call.parsed) = 4

\* paired classes of MaxClassSize members, one of them nested, in a context
\* of four variants
C19_WitnessLargest ==
  /\ Compiled /\ call.ok /\ Paired(Written)
  /\ Len(Written.from.members) = MaxClassSize
  /\ Cardinality(Written.context.variants) = 4
  /\ Len(call.parsed) = 4 * MaxClassSize

ClassLengthsDiffer ==
  <<"[", "a", " ", "b", "]", " ", ">", " ", "[", "x", " ", "y", " ", "z", "]">>
ClassInTargetOnly == <<"a", " ", ">", " ", "[", "x", " ", "y", "]">>

\* the rule line is cut into from, `to` and contexts, and no class in it
\* is empty: expandRule gets as far as comparing the classes
ReachesValidation(form) ==
  /\ form.context.error \notin {"NoUnderscore", "EmptyClass"}
  /\ Len(form.from.members) > 0
  /\ Len(form.to.members) > 0

\* C20: a rule whose `to` is a class compiles only if from is a class with
\* as many members; [a b] > [x y z] fails with the error about class
\* lengths and a > [x y] with the error that a class in the target requires
\* a class in the source, both naming the line.
C20_ClassTargetNeedsClassSource ==
  /\ (Compiled /\ Written.to.isClass /\ call.ok) =>
       /\ Written.from.isClass
       /\ Len(Written.from.members) = Len(Written.to.members)
  /\ (Compiled /\ Written.to.isClass /\ ReachesValidation(Written)) =>
       /\ ~Written.from.isClass =>
            /\ ~call.ok /\ call.error = "ClassInTarget"
            /\ call.lineNum = LineNumOf(Written)
       /\ (Written.from.isClass /\ Len(Written.from.members) # Len(Written.to.members)) =>
            /\ ~call.ok /\ call.error = "ClassLengths"
            /\ call.lineNum = LineNumOf(Written)
  /\ (Compiled /\ rulesText = ClassLengthsDiffer) =>
       ~call.ok /\ call.error = "ClassLengths" /\ call.lineNum = 1
  /\ (Compiled /\ rulesText = ClassInTargetOnly) =>
       ~call.ok /\ call.error = "ClassInTarget" /\ call.lineNum = 1

C20_Witness ==
  /\ Compiled /\ rulesText = ClassInTargetOnly
  /\ ~call.ok /\ call.error = "ClassInTarget"

C20_WitnessLengths ==
  /\ Compiled /\ rulesText = ClassLengthsDiffer
  /\ ~call.ok /\ call.error = "ClassLengths"


\* --- C21 ----------------------------------------------------------------
\* the definition lines of rulesText, in the order they are written
DefinitionsWritten ==
  SelectSeq(Split(rulesText, LF), LAMBDA l : IndexOf(l, "=") # -1)

NameWritten(l) == Trim(Substring(l, 0, IndexOf(l, "=")))
ValueWritten(l) == Trim(Substring(l, IndexOf(l, "=") + 1, Len(l)))

NamesWritten == { NameWritten(DefinitionsWritten[k]) : k \in 1..Len(DefinitionsWritten) }

\* the value of the last definition of name
LastValue(name) ==
  LET at == { k \in 1..Len(DefinitionsWritten) : NameWritten(DefinitionsWritten[k]) = name }
  IN ValueWritten(DefinitionsWritten[CHOOSE k \in at : \A m \in at : m <= k])

\* the variables that the value of name names as whole tokens
ReferencesOf(name) ==
  { m \in NamesWritten :
      \E k \in 1..Len(SplitWords(WithoutBrackets(LastValue(name)))) :
        SplitWords(WithoutBrackets(LastValue(name)))[k] = m }

\* the variables reached from the variables of from in at most n references
RECURSIVE ReachedIn(_, _)
ReachedIn(from, n) ==
  IF n = 0 THEN {}
  ELSE LET next == UNION { ReferencesOf(m) : m \in from }
       IN next \cup ReachedIn(next, n - 1)

OnCycle(name) == name \in ReachedIn({name}, Cardinality(NamesWritten))

\* C21: when some variable is reachable from itself through the variable
\* references of the definitions, compilation fails with the error of a
\* circular reference, and the variable it names is on a cycle, whether or
\* not a rule uses the variable.
C21_CircularReferenceFails ==
  (Compiled /\ \E name \in NamesWritten : OnCycle(name)) =>
    /\ ~call.ok
    /\ call.error = "CircularReference"
    /\ call.variable \in NamesWritten
    /\ OnCycle(call.variable)


\* --- C22 ----------------------------------------------------------------
\* the four token sequences of a rule, an absent context being no tokens
TokensOf(rule) ==
  Range(rule.from) \cup Range(rule.to)
    \cup (IF rule.leftContext = Undefined THEN {} ELSE Range(rule.leftContext))
    \cup (IF rule.rightContext = Undefined THEN {} ELSE Range(rule.rightContext))

SyntaxChars == {"[", "]", "(", ")", "!"}

PlainToken(t) == \A k \in 1..Len(t) : t[k] \notin SyntaxChars

\* C22: every Rule emitted by a successful compilation is made of plain
\* phoneme tokens only: no token of its from, `to`, leftContext or
\* rightContext holds a bracket, a parenthesis or the mark of a negative
\* set.
C22_RulesArePlain ==
  (Compiled /\ call.ok) =>
    \A k \in 1..Len(call.parsed) : \A t \in TokensOf(call.parsed[k]) : PlainToken(t)


\* a class standing before other content in from
ClassThenPhoneme ==
  <<"[", "a", " ", "b", "]", " ", "c", " ", ">", " ", "x", " ", "/", " ", "_">>

C22_Reached ==
  /\ Compiled /\ rulesText = ClassThenPhoneme /\ call.ok
  /\ call.parsed = << Rule(<< <<"[", "a">>, <<"b", "]">>, <<"c">> >>, << <<"x">> >>,
                           Undefined, Undefined) >>

\* --- C25 ----------------------------------------------------------------
\* the form rulesText was written from
WrittenMixed == CHOOSE form \in MixedForms : MixedText(form) = rulesText

OnlyMarkedClassLeft ==
  <<"a", " ", ">", " ", "x", " ", "/", " ", "[", "d", " ", "e", " ", "_", "]", " ", "_">>
MarkedClassAfterPhoneme ==
  <<"a", " ", ">", " ", "x", " ", "/", " ", "c", " ", "[", "d", " ", "e", " ", "_", "]",
    " ", "_">>

\* C25: compilation fails when on some context side every class holds the
\* empty marker _ and nothing else stands on that side, as in
\* a > x / [d e _] _ and a > x / [a _] [b _] _, while a > x / c [d e _] _
\* is accepted.
C25_VacuousContextRejected ==
  /\ (Compiled /\ (WrittenMixed.left.vacuous \/ WrittenMixed.right.vacuous)) => ~call.ok
  /\ (Compiled /\ rulesText = MarkedClassAfterPhoneme) => call.ok

\* what the compiler does with a > x / [d e _] _
C25_Reached ==
  /\ Compiled /\ rulesText = OnlyMarkedClassLeft /\ call.ok
  /\ call.parsed = << Rule(<< <<"a">> >>, << <<"x">> >>, << <<"d">> >>, Undefined),
                      Rule(<< <<"a">> >>, << <<"x">> >>, << <<"e">> >>, Undefined),
                      Rule(<< <<"a">> >>, << <<"x">> >>, << <<"_">> >>, Undefined) >>


\* --- C23 ----------------------------------------------------------------
\* the token sequences a side stands for: every group present or absent,
\* the groups inside a present group likewise
RECURSIVE Variants(_)
ItemVariants(item) ==
  IF item.kind = "fixed" THEN {<<item.token>>} ELSE Variants(item.items) \cup {<<>>}
Variants(items) ==
  IF Len(items) = 0 THEN {<<>>}
  ELSE { h \o t : h \in ItemVariants(items[1]), t \in Variants(Tail(items)) }

\* the context a variant compiles to: none when nothing is left
ContextOf(variant) == IF variant = <<>> THEN Undefined ELSE variant

\* the number of optional groups of a side, those inside groups included
RECURSIVE GroupCount(_)
GroupCount(items) ==
  IF Len(items) = 0 THEN 0
  ELSE (IF items[1].kind = "fixed" THEN 0 ELSE 1 + GroupCount(items[1].items))
         + GroupCount(Tail(items))

\* the sides rulesText was written from
SideWritten(text) == CHOOSE items \in OptionalSides : ItemsText(items) = text
ContextWritten == Substring(rulesText, 8, Len(rulesText))
LeftWritten == SideWritten(Trim(Substring(ContextWritten, 0, IndexOf(ContextWritten, "_"))))
RightWritten ==
  SideWritten(Trim(Substring(ContextWritten, IndexOf(ContextWritten, "_") + 1,
                             Len(ContextWritten))))

OptionalRules ==
  { Rule(<<P("a")>>, <<P("b")>>, ContextOf(l), ContextOf(r)) :
      l \in Variants(LeftWritten), r \in Variants(RightWritten) }

OptionalBothSides ==
  <<"a", " ", ">", " ", "b", " ", "/", " ", "(", "c", ")", " ", "_", " ", "(", "d", ")">>
OptionalNested ==
  <<"a", " ", ">", " ", "b", " ", "/", " ", "(", "c", " ", "(", "d", ")", ")", " ", "_">>

\* C23: a context side with optional groups compiles to the set of its
\* present/absent combinations, each once, the groups inside a group being
\* expanded with it; the combination that leaves nothing on the side gives
\* a rule with no context on that side. a > b / (c) _ (d) yields exactly 4
\* rules and a > b / (c (d)) _ exactly 3.
C23_OptionalCombinations ==
  /\ Compiled =>
       /\ call.ok
       /\ RuleSet(call.parsed) = OptionalRules
       /\ Len(call.parsed) = Cardinality(OptionalRules)
  /\ (Compiled /\ rulesText = OptionalBothSides) =>
       /\ Len(call.parsed) = 4
       /\ RuleSet(call.parsed) =
            { Rule(<<P("a")>>, <<P("b")>>, <<P("c")>>, <<P("d")>>),
              Rule(<<P("a")>>, <<P("b")>>, <<P("c")>>, Undefined),
              Rule(<<P("a")>>, <<P("b")>>, Undefined, <<P("d")>>),
              Rule(<<P("a")>>, <<P("b")>>, Undefined, Undefined) }
  /\ (Compiled /\ rulesText = OptionalNested) =>
       /\ Len(call.parsed) = 3
       /\ RuleSet(call.parsed) =
            { Rule(<<P("a")>>, <<P("b")>>, <<P("c"), P("d")>>, Undefined),
              Rule(<<P("a")>>, <<P("b")>>, <<P("c")>>, Undefined),
              Rule(<<P("a")>>, <<P("b")>>, Undefined, Undefined) }

\* a side of two groups that give the same string twice: (c) (c)
C23_Witness ==
  /\ Compiled /\ call.ok
  /\ GroupCount(LeftWritten) = 2
  /\ Cardinality(Variants(LeftWritten)) = 3
  /\ Len(RightWritten) = 0
  /\ Len(call.parsed) = 3

C23_WitnessNested ==
  Compiled /\ rulesText = OptionalNested /\ call.ok /\ Len(call.parsed) = 3

C23_WitnessBothSides ==
  Compiled /\ rulesText = OptionalBothSides /\ call.ok /\ Len(call.parsed) = 4


\* --- C24 ----------------------------------------------------------------
WrittenNegative == CHOOSE form \in NegativeForms : NegativeText(form) = rulesText

\* the phonemes a negative set lists: V stands for its value when V is
\* defined, and # is no phoneme
ListedBy(form) ==
  UNION { IF t = P("V") /\ form.definition.text # <<>> THEN {P("p"), P("t")}
          ELSE IF t = Boundary THEN {}
          ELSE {t} : t \in Range(form.listed) }

\* every literal token of the variable values and of the rule lines
UniverseOf(form) ==
  form.definition.tokens \cup form.other.tokens \cup ListedBy(form)
    \cup (IF form.place = "from" THEN {P("b")} ELSE {P("a"), P("b")})

ComplementIn(form) == UniverseOf(form) \ ListedBy(form)

\* the rules of the line with the negative set, the set being the class of
\* its complement
NegativeRules(form) ==
  IF form.place = "left"
  THEN { Rule(<<P("a")>>, <<P("b")>>, <<u>>, Undefined) : u \in ComplementIn(form) }
  ELSE IF form.place = "right"
  THEN { Rule(<<P("a")>>, <<P("b")>>, Undefined, <<u>>) : u \in ComplementIn(form) }
  ELSE { Rule(<<u>>, <<P("b")>>, Undefined, Undefined) : u \in ComplementIn(form) }

\* C24: a negative set compiles to the class of exactly the tokens of the
\* universe that it does not list, the universe being every literal token
\* of the variable values and of the rule lines except _, #, ! and the
\* deletion mark; when no token is left, compilation fails.
C24_NegativeSetIsComplement ==
  Compiled =>
    IF ComplementIn(WrittenNegative) = {} THEN ~call.ok
    ELSE /\ call.ok
         /\ RuleSet(call.parsed) = WrittenNegative.other.rules \cup NegativeRules(WrittenNegative)

\* what the compiler does with a > b / (c) _ followed by a > b / ![a] _
C24_Reached ==
  /\ Compiled /\ call.ok
  /\ rulesText = <<"a", " ", ">", " ", "b", " ", "/", " ", "(", "c", ")", " ", "_", LF,
                   "a", " ", ">", " ", "b", " ", "/", " ", "!", "[", "a", "]", " ", "_">>
  /\ call.parsed = << Rule(<<P("a")>>, <<P("b")>>, <<P("c")>>, Undefined),
                      Rule(<<P("a")>>, <<P("b")>>, Undefined, Undefined),
                      Rule(<<P("a")>>, <<P("b")>>, <<P("b")>>, Undefined),
                      Rule(<<P("a")>>, <<P("b")>>, << <<"(", "c", ")">> >>, Undefined) >>

\* ---------------------------------------------------------------------- C26
\* the rule line a compilation stopped at, as written and as trimmed
OffendingLines == { Some(LineOf(Written)), Some(Trim(LineOf(Written))) }

\* C26: every compilation failure is reported with the line number of the
\* offending line and that line's original text
C26_FailureNamesLine ==
  (Compiled /\ ~call.ok) =>
    /\ call.lineNum = LineNumOf(Written)
    /\ call.line \in OffendingLines

\* the failures whose report has both, and those that lack one or both
C26_ReportedInFull ==
  (Compiled /\ ~call.ok /\ call.error \in {"Format", "NoUnderscore", "ClassInTarget"}) =>
    /\ call.lineNum = LineNumOf(Written)
    /\ call.line \in OffendingLines
C26_NumberOnly ==
  (Compiled /\ ~call.ok /\ call.error \in {"EmptySource", "ClassLengths"}) =>
    /\ call.lineNum = LineNumOf(Written)
    /\ call.line = None
C26_Neither ==
  (Compiled /\ ~call.ok /\ call.error \in {"EmptyClass", "UnclosedGroup"}) =>
    /\ call.lineNum = 0
    /\ call.line = None

\* what the compiler reports for [] > x on the second line
C26_Reached ==
  /\ Compiled /\ ~call.ok
  /\ rulesText = <<" ", LF, "[", "]", " ", ">", " ", "x">>
  /\ call.error = "EmptyClass"
  /\ call.lineNum = 0
  /\ call.line = None

\* ---------------------------------------------------------------------- C27
\* apply(s, R, src, tgt) returns t
PreImage(s, t) ==
  LET r == applyRules(s, rules, sourcePhonemes, targetPhonemes)
  IN r.ok /\ r.output = t

C27_Reached ==
  /\ call.op = "reverse" /\ call.ok
  /\ rules = <<Rule(<<P("a")>>, <<P("b")>>, Undefined, Undefined)>>
  /\ sourcePhonemes = <<P("a"), P("b")>>
  /\ targetPhonemes = <<P("a"), P("b")>>
  /\ word = <<"a", "a">>
  /\ call.words = << <<"a", "a">> >>
  /\ applyRules(<<"a", "a">>, rules, sourcePhonemes, targetPhonemes).output = <<"b", "b">>

\* a result that is a pre-image next to one that is not
C27_ReachedSome ==
  /\ call.op = "reverse" /\ call.ok
  /\ \E n \in 1..Len(call.words) : PreImage(call.words[n], word)
  /\ \E n \in 1..Len(call.words) : ~PreImage(call.words[n], word)

\* ---------------------------------------------------------------------- C28
\* the candidates left after the first rule has been reversed
FinalKeys == call.trace[Len(call.trace)]

\* two candidate token sequences with the same text, both kept by the final
\* validation
SameTextCandidates ==
  \E c, d \in FinalKeys :
    /\ c # d
    /\ Join(deserializeTokens(c)) = Join(deserializeTokens(d))
    /\ KeepKey(c, sortedSourcePhonemes, sourcePhonotactics)
    /\ KeepKey(d, sortedSourcePhonemes, sourcePhonotactics)

\* C28: the list returned by reverse holds no word more than once, even
\* when two distinct candidate token sequences concatenate to the same text
C28_NoDuplicates ==
  (call.op = "reverse" /\ call.ok) =>
    \A m, n \in 1..Len(call.words) : call.words[m] = call.words[n] => m = n

\* the list is without duplicates whenever no two kept candidates share
\* their text
C28_DistinctTextsNoDuplicates ==
  (call.op = "reverse" /\ call.ok /\ ~SameTextCandidates) =>
    \A m, n \in 1..Len(call.words) : call.words[m] = call.words[n] => m = n

C28_Reached ==
  /\ call.op = "reverse" /\ call.ok
  /\ SameTextCandidates

\* ---------------------------------------------------------------------- C29
\* an entry computed for the selected side from the current word list,
\* rules and phoneme inventories
ComputedFromCurrent(e) ==
  /\ e.side = side
  /\ e.result = (IF side = "source" THEN "output" ELSE "inputs")
  /\ e.words = words
  /\ e.props.rules = props.rules
  /\ e.props.sourcePhonemeSet = props.sourcePhonemeSet
  /\ e.props.targetPhonemeSet = props.targetPhonemeSet

\* C29: whenever the analysis results are treated as valid (analysisStatus
\* is done and the stamped input key equals the current input key), every
\* entry of analysisEntries was computed for the currently selected side
\* from the current word list, rules and phoneme inventories
C29_ValidEntriesAreCurrent ==
  analysisValid =>
    \A n \in 1..Len(analysisEntries) : ComputedFromCurrent(analysisEntries[n])

\* results treated as valid that hold entries of the other side
C29_ReachedOtherSide ==
  /\ analysisValid
  /\ side = "source"
  /\ \E n \in 1..Len(analysisEntries) : analysisEntries[n].side = "target"

\* results treated as valid that were computed with other rules
C29_ReachedOtherRules ==
  /\ analysisValid
  /\ \A n \in 1..Len(analysisEntries) : analysisEntries[n].props.rules # props.rules

\* ---------------------------------------------------------------------- C30
\* C30: an analysis run that has been superseded while still in progress, by
\* a later runAnalysis call or by a side or ruleset change, stops at its
\* next chunk boundary and never writes analysisEntries, analysisInputKey
\* or analysisStatus
C30_SupersededRunStops ==
  \A token \in 1..Len(runs) :
    runs[token].superseded => ~runs[token].wentOn /\ ~runs[token].wrote

\* a run superseded by a later call of runAnalysis does stop: its next step
\* leaves the loop or skips the final statements, and writes nothing
C30_LaterCallStops ==
  [][\A token \in 1..Len(runs) :
       (token # currentToken /\ runs'[token] # runs[token]) =>
         /\ runs'[token].pc \in {"returned", "finished"}
         /\ runs'[token].entries = runs[token].entries
         /\ UNCHANGED <<analysisEntries, analysisInputKey, analysisStatus>>]_vars

\* a run that wrote its results after the side was changed
C30_ReachedWrote ==
  \E token \in 1..Len(runs) : runs[token].superseded /\ runs[token].wrote

\* a run that stopped at a chunk boundary
C30_ReachedReturned ==
  \E token \in 1..Len(runs) : runs[token].pc = "returned"

====
